---- MODULE Spec2Model ----
(***************************************************************************)
(* Coverage-gap extraction of the CI helper scripts:                       *)
(* find_coverage_gaps of .github/scripts/jacoco_test_generator.py walks a  *)
(* parsed JaCoCo report (package -> class -> method -> counter), collects  *)
(* per class the methods whose INSTRUCTION coverage is below min_coverage  *)
(* and returns the classes ordered by the sum of their missed              *)
(* instructions.                                                           *)
(*                                                                         *)
(* Representation.  Element names that the code rewrites or searches       *)
(* (package and class names) are sequences of one-character strings, so    *)
(* that str.replace and the substring test are computed.  A percentage is  *)
(* the exact fraction [num, den] in lowest terms of the value the code     *)
(* computes in floating point; the inputs are chosen so that the float and *)
(* the fraction order the same way against every threshold used.           *)
(***************************************************************************)
EXTENDS Integers, Sequences, FiniteSets, TLC

VARIABLES
    document,               \* the file at jacoco_path: is it there, does it parse, its root
    report,                 \* the package elements ET.parse finds in it, in document order
    excludeAccessors,       \* the option of that name the caller's configuration holds
    pc,                     \* "idle" between calls, "walk" inside find_coverage_gaps
    min_coverage,           \* the parameter of the call in progress
    pi, ci,                 \* the package and the class the two outer loops are at
    class_methods,          \* the three locals of the class scanned last
    total_class_methods,
    covered_class_methods,
    coverage_gaps,          \* the list the call builds and returns
    returned,               \* what each finished call returned, with its threshold
    frames,                 \* the locals of each of two calls in progress at once
    files,                  \* the paths of the files on disk that find_source_file can see
    calls,                  \* the stack of find_source_file calls in progress, outermost first
    source_file,            \* what the outermost find_source_file returned: <<>> or <<path>>
    kiwi_returned,          \* what each call of test_generator.find_coverage_gaps returned
    disk,                   \* the XML files under base_dir: path |-> what the file holds
    finder,                 \* the locals of find_jacoco_reports and where it is
    response,               \* the text the API answered, as its lines
    code,                   \* what _extract_code_from_response returned for it, <<>> before
    main,                   \* the locals of main: its gap list, --max-classes, its loop
    test_dir,               \* the files below args.test_dir, by path
    test_dir_at_start,      \* those files as main found them
    generate_calls          \* the classes generate_complete_test_class was called for

vars == <<document, report, excludeAccessors, pc, min_coverage, pi, ci, class_methods, total_class_methods,
          covered_class_methods, coverage_gaps, returned, frames,
          main, test_dir, test_dir_at_start, generate_calls,
          files, calls, source_file, kiwi_returned, disk, finder, response, code>>

\* what a call is given and leaves alone
given == <<document, report, excludeAccessors>>

\* the variables of the other entry points, which one call after the other
\* on one report leaves alone
generator == <<main, test_dir, test_dir_at_start, generate_calls>>

\* the variables of find_source_file on its own
lookup == <<files, calls, source_file>>

aside == <<lookup, kiwi_returned, disk, finder, response, code>>

elsewhere == <<frames, generator, aside>>

class_locals == <<class_methods, total_class_methods, covered_class_methods>>

(***************************************************************************)
(* Bounds of the model.                                                    *)
(***************************************************************************)
MaxPackages == 2
MaxClasses == 3
MaxMethods == 2
MaxCalls == 2

\* The values of --min-coverage the calls are made with (80.0 is the default).
Thresholds == {0, 80, 100}

(***************************************************************************)
(* Strings as character sequences.                                         *)
(***************************************************************************)
\* str.replace('/', '.')
ReplaceSlash(s) == [i \in 1..Len(s) |-> IF s[i] = "/" THEN "." ELSE s[i]]

\* sub in s
Contains(s, sub) ==
    \E i \in 0..(Len(s) - Len(sub)) :
        \A k \in 1..Len(sub) : s[i + k] = sub[k]

TestWord == <<"T", "e", "s", "t">>

\* str.replace('.', '/')
ReplaceDot(s) == [i \in 1..Len(s) |-> IF s[i] = "." THEN "/" ELSE s[i]]

\* s.split(sep)
RECURSIVE Split(_, _)
Split(s, sep) ==
    IF \A i \in 1..Len(s) : s[i] # sep THEN <<s>>
    ELSE LET k == CHOOSE i \in 1..Len(s) : s[i] = sep /\ \A j \in 1..(i - 1) : s[j] # sep
         IN  <<SubSeq(s, 1, k - 1)>> \o Split(SubSeq(s, k + 1, Len(s)), sep)

\* sep.join(parts)
RECURSIVE JoinWith(_, _)
JoinWith(parts, sep) ==
    IF parts = <<>> THEN <<>>
    ELSE IF Len(parts) = 1 THEN parts[1]
    ELSE parts[1] \o <<sep>> \o JoinWith(Tail(parts), sep)

\* parts[:-1] and parts[-1]
AllButLast(parts) == SubSeq(parts, 1, Len(parts) - 1)

Last(parts) == parts[Len(parts)]

\* os.path.join(a, b) on POSIX
PathJoin(a, b) ==
    IF b # <<>> /\ b[1] = "/" THEN b
    ELSE IF a = <<>> \/ a[Len(a)] = "/" THEN a \o b
    ELSE a \o <<"/">> \o b

\* seq[:stop]
SliceTo(seq, stop) ==
    LET n == Len(seq)
        k == IF stop < 0 THEN (IF n + stop < 0 THEN 0 ELSE n + stop)
             ELSE (IF stop > n THEN n ELSE stop)
    IN  SubSeq(seq, 1, k)

\* attrib.get(key, default)
Attr(attrib, key, default) == IF key \in DOMAIN attrib THEN attrib[key] ELSE default

(***************************************************************************)
(* Percentages.                                                            *)
(***************************************************************************)
RECURSIVE Gcd(_, _)
Gcd(a, b) == IF b = 0 THEN a ELSE Gcd(b, a % b)

\* (part / whole) * 100 for whole > 0, as a fraction in lowest terms
Fraction100(part, whole) ==
    LET g == Gcd(part * 100, whole)
    IN  [num |-> (part * 100) \div g, den |-> whole \div g]

Zero == [num |-> 0, den |-> 1]

\* a percentage p compared with a threshold m:  p < m
PctLess(p, m) == p.num < m * p.den

(***************************************************************************)
(* find_coverage_gaps: the computation on one method.                      *)
(***************************************************************************)
NoCounter == [type |-> "NONE"]

\* method.find("counter[@type='INSTRUCTION']"): the first such child, or None
RECURSIVE FindInstructionCounter(_)
FindInstructionCounter(counters) ==
    IF counters = <<>> THEN NoCounter
    ELSE IF Attr(Head(counters), "type", "") = "INSTRUCTION" THEN Head(counters)
    ELSE FindInstructionCounter(Tail(counters))

\* missed = int(counter.attrib.get('missed', 0))
Missed(counter) == Attr(counter, "missed", 0)

\* covered = int(counter.attrib.get('covered', 0))
Covered(counter) == Attr(counter, "covered", 0)

\* int(...) raises ValueError on an attribute whose text is no integer; such
\* an attribute is kept under missed_text or covered_text
IntRaises(counter) ==
    "missed_text" \in DOMAIN counter \/ "covered_text" \in DOMAIN counter

\* an empty counter counts as fully covered
CoveragePercentage_EmptyIsFull(missed, covered) ==
    IF missed + covered = 0 THEN Fraction100(1, 1) ELSE Fraction100(covered, missed + covered)

CoveragePercentage_ByMissed(missed, covered) ==
    IF missed + covered = 0 THEN Zero ELSE Fraction100(missed, missed + covered)

CoveragePercentage_NotTimes100(missed, covered) ==
    IF missed + covered = 0 THEN Zero
    ELSE [num |-> covered \div Gcd(covered, missed + covered),
          den |-> (missed + covered) \div Gcd(covered, missed + covered)]

\* total = missed + covered; coverage = 0 if total == 0 else (covered / total) * 100
CoveragePercentage(missed, covered) ==
    IF missed + covered = 0 THEN Zero ELSE Fraction100(covered, missed + covered)

Qualifies_AtMost(coverage, min) == coverage.num <= min * coverage.den

Qualifies_Above(coverage, min) == ~PctLess(coverage, min)

\* if coverage < min_coverage
Qualifies(coverage, min) == PctLess(coverage, min)

\* the names the find_coverage_gaps of test_generator.py skips
IsConstructor_OrUtility(method_name) ==
    method_name \in {"<init>", "toString", "hashCode", "equals"}

IsConstructor_WithoutBrackets(method_name) == method_name = "init"

\* if method_name == "<init>": continue
IsConstructor(method_name) == method_name = "<init>"

\* the loop over the methods raises: a method that is no constructor has an
\* INSTRUCTION counter that int() rejects
ScanRaises(methods) ==
    \E n \in 1..Len(methods) :
        /\ ~IsConstructor(Attr(methods[n].attrib, "name", ""))
        /\ FindInstructionCounter(methods[n].counters) # NoCounter
        /\ IntRaises(FindInstructionCounter(methods[n].counters))

\* the dictionary appended to class_methods
MethodEntry(method_name, coverage, missed) ==
    [method |-> method_name,
     coverage_percentage |-> coverage,
     missed_instructions |-> missed,
     priority |-> missed]

NoMethods == [class_methods |-> <<>>, total_class_methods |-> 0, covered_class_methods |-> 0]

MethodStep_CoveredOnlyIfBelow(acc, method, min) ==
    LET method_name == Attr(method.attrib, "name", "")
        counter == FindInstructionCounter(method.counters)
        missed == Missed(counter)
        covered == Covered(counter)
        coverage == CoveragePercentage(missed, covered)
    IN  IF IsConstructor(method_name) THEN acc
        ELSE IF counter = NoCounter
        THEN [acc EXCEPT !.total_class_methods = @ + 1]
        ELSE [class_methods |->
                  IF Qualifies(coverage, min)
                  THEN Append(acc.class_methods, MethodEntry(method_name, coverage, missed))
                  ELSE acc.class_methods,
              total_class_methods |-> acc.total_class_methods + 1,
              covered_class_methods |->
                  IF covered > 0 /\ Qualifies(coverage, min)
                  THEN acc.covered_class_methods + 1
                  ELSE acc.covered_class_methods]

\* one iteration of "for method in clazz.findall('.//method')"
MethodStep(acc, method, min) ==
    LET method_name == Attr(method.attrib, "name", "")
        counter == FindInstructionCounter(method.counters)
        missed == Missed(counter)
        covered == Covered(counter)
        coverage == CoveragePercentage(missed, covered)
    IN  IF IsConstructor(method_name) THEN acc
        ELSE IF counter = NoCounter
        THEN [acc EXCEPT !.total_class_methods = @ + 1]
        ELSE [class_methods |->
                  IF Qualifies(coverage, min)
                  THEN Append(acc.class_methods, MethodEntry(method_name, coverage, missed))
                  ELSE acc.class_methods,
              total_class_methods |-> acc.total_class_methods + 1,
              covered_class_methods |->
                  IF covered > 0
                  THEN acc.covered_class_methods + 1
                  ELSE acc.covered_class_methods]

\* the whole loop over the methods of one class, from the three fresh locals
RECURSIVE ScanMethods(_, _, _)
ScanMethods(acc, methods, min) ==
    IF methods = <<>> THEN acc
    ELSE ScanMethods(MethodStep(acc, Head(methods), min), Tail(methods), min)

(***************************************************************************)
(* find_coverage_gaps: the computation on one class.                       *)
(***************************************************************************)
IsTestClass_Suffix(name) ==
    /\ Len(name) >= Len(TestWord)
    /\ SubSeq(name, Len(name) - Len(TestWord) + 1, Len(name)) = TestWord

\* if 'Test' in class_name: continue
IsTestClass(name) == Contains(name, TestWord)

\* source_file_name = clazz.attrib.get('sourcefilename'); if not source_file_name: continue
\* (None and the empty string are both false)
HasNoSourceFile_MissingOnly(class) == "sourcefilename" \notin DOMAIN class.attrib

HasNoSourceFile(class) == Attr(class.attrib, "sourcefilename", "") = ""

ClassCoverage_Uncovered(covered, total) ==
    IF total = 0 THEN Zero ELSE Fraction100(total - covered, total)

\* class_coverage = 0 if total_class_methods == 0
\*                  else (covered_class_methods / total_class_methods) * 100
ClassCoverage(covered, total) ==
    IF total = 0 THEN Zero ELSE Fraction100(covered, total)

SumMissed_Count(entries) == Len(entries)

\* sum(m['missed_instructions'] for m in class_methods)
RECURSIVE SumMissed(_)
SumMissed(entries) ==
    IF entries = <<>> THEN 0
    ELSE Head(entries).missed_instructions + SumMissed(Tail(entries))

\* the dictionary appended to coverage_gaps
GapEntry(package, name, source_file_name, methods, covered, total) ==
    [package |-> package,
     class |-> name,
     source_file |-> source_file_name,
     methods |-> methods,
     class_coverage |-> ClassCoverage(covered, total),
     priority |-> SumMissed(methods)]

AddIfListed_Always(gaps, methods, entry) == Append(gaps, entry)

\* if class_methods: coverage_gaps.append({...})
AddIfListed(gaps, methods, entry) ==
    IF methods # <<>> THEN Append(gaps, entry) ELSE gaps

(***************************************************************************)
(* coverage_gaps.sort(key=lambda x: x['priority'], reverse=True)           *)
(* list.sort is stable, and with reverse=True elements with equal keys     *)
(* keep their original order.                                              *)
(***************************************************************************)
\* g placed ahead of the elements whose priority equals its own
InsertDescending_TiesFirst(sorted, g) ==
    LET ahead == {i \in 1..Len(sorted) : sorted[i].priority > g.priority}
        n == Cardinality(ahead)
    IN  SubSeq(sorted, 1, n) \o <<g>> \o SubSeq(sorted, n + 1, Len(sorted))

\* g placed behind every element whose priority is at least its own
InsertDescending(sorted, g) ==
    LET ahead == {i \in 1..Len(sorted) : sorted[i].priority >= g.priority}
        n == Cardinality(ahead)
    IN  SubSeq(sorted, 1, n) \o <<g>> \o SubSeq(sorted, n + 1, Len(sorted))

\* g placed behind every element whose priority is at most its own
InsertAscending(sorted, g) ==
    LET ahead == {i \in 1..Len(sorted) : sorted[i].priority <= g.priority}
        n == Cardinality(ahead)
    IN  SubSeq(sorted, 1, n) \o <<g>> \o SubSeq(sorted, n + 1, Len(sorted))

RECURSIVE SortAscending(_, _)
SortAscending(sorted, rest) ==
    IF rest = <<>> THEN sorted
    ELSE SortAscending(InsertAscending(sorted, Head(rest)), Tail(rest))

Reverse(s) == [i \in 1..Len(s) |-> s[Len(s) + 1 - i]]

RECURSIVE SortDescending(_, _)
SortDescending(sorted, rest) ==
    IF rest = <<>> THEN sorted
    ELSE SortDescending(InsertDescending(sorted, Head(rest)), Tail(rest))

SortGaps_NoReverse(gaps) == SortAscending(<<>>, gaps)

SortGaps_ReversedAfter(gaps) == Reverse(SortAscending(<<>>, gaps))

SortGaps(gaps) == SortDescending(<<>>, gaps)

(***************************************************************************)
(* The reports the calls are made on.  A report is the sequence of its     *)
(* package elements in document order (root.findall(".//package")); a      *)
(* package has its attributes and its class children, a class its          *)
(* attributes and its method descendants, a method its attributes and its  *)
(* counter children.  Class names are unique within a report, as in the    *)
(* reports JaCoCo writes.                                                  *)
(***************************************************************************)
Instruction(missed, covered) == [type |-> "INSTRUCTION", missed |-> missed, covered |-> covered]

Line(missed, covered) == [type |-> "LINE", missed |-> missed, covered |-> covered]

Method(name, counters) == [attrib |-> [name |-> name], counters |-> counters]

Bar == Method("bar", <<Instruction(8, 2)>>)
Baz == Method("baz", <<Instruction(0, 10)>>)
Ctor == Method("<init>", <<Instruction(8, 2)>>)
Run == Method("run", <<Line(3, 0)>>)
Nop == Method("nop", <<Instruction(0, 0)>>)
Edge == Method("edge", <<Line(1, 4), Instruction(2, 8)>>)
Cold == Method("cold", <<[type |-> "INSTRUCTION", missed |-> 10]>>)

MethodPool == {Bar, Baz, Ctor, Run, Nop, Edge, Cold}

MethodLists == UNION {[1..n -> MethodPool] : n \in 0..MaxMethods}

ComExample == <<"c", "o", "m", "/", "e", "x", "a", "m", "p", "l", "e">>

FooName == ComExample \o <<"/", "F", "o", "o">>

FooTestName == ComExample \o <<"/", "F", "o", "o", "T", "e", "s", "t">>

Class(name, sourcefilename, methods) ==
    [attrib |-> [name |-> name, sourcefilename |-> sourcefilename], methods |-> methods]

Package(name, classes) == [attrib |-> [name |-> name], classes |-> classes]

\* one package, one class, every list of methods
DeepReports ==
    {<<Package(ComExample, <<clazz>>)>> :
        clazz \in {Class(FooName, "Foo.java", methods) : methods \in MethodLists}
             \cup {Class(FooTestName, "FooTest.java", methods) : methods \in MethodLists}
             \cup {Class(FooName, "", methods) : methods \in MethodLists}
             \cup {[attrib |-> [name |-> FooName], methods |-> methods] : methods \in MethodLists}}

Letters == <<"a", "b", "c", "d">>

Digits == <<"1", "2", "3", "4", "5">>

PackageNameAt(p) == <<"o", "r", "g", "/", Letters[p]>>

\* the classes the i-th class element of a wide report, in package p, can be:
\* priority 8 below threshold 100 and 10 from it on, priority 10, or a test class
ClassAt(p, i, kind) ==
    CASE kind = "bar" ->
            Class(PackageNameAt(p) \o <<"/", "C", Digits[i]>>, "C.java", <<Bar, Edge>>)
      [] kind = "cold" ->
            Class(PackageNameAt(p) \o <<"/", "C", Digits[i]>>, "C.java", <<Cold>>)
      [] kind = "test" ->
            Class(PackageNameAt(p) \o <<"/", "T", "e", "s", "t", "e", "r", Digits[i]>>,
                  "T.java", <<Cold>>)

ClassKinds == {"bar", "cold", "test"}

KindLists == UNION {[1..n -> ClassKinds] : n \in 0..MaxClasses}

RECURSIVE SumTo(_, _)
SumTo(sizes, p) == IF p = 0 THEN 0 ELSE sizes[p] + SumTo(sizes, p - 1)

\* the ways to cut n classes into up to MaxPackages packages (a package may be empty)
Cuts(n) ==
    UNION {{sizes \in [1..k -> 0..n] : SumTo(sizes, k) = n} : k \in 0..MaxPackages}

\* up to MaxClasses classes in up to MaxPackages packages
WideReports ==
    {[p \in 1..Len(sizes) |->
        Package(PackageNameAt(p),
                [c \in 1..sizes[p] |->
                    ClassAt(p, SumTo(sizes, p - 1) + c, kinds[SumTo(sizes, p - 1) + c])])] :
        <<kinds, sizes>> \in UNION {{kinds} \X Cuts(Len(kinds)) : kinds \in KindLists}}

Reports == DeepReports \cup WideReports

\* the file at jacoco_path: a well-formed XML document with its root tag, a
\* file ET.parse rejects, or no file (and no jacoco.xml below the working
\* directory either)
Xml(root_tag) == [kind |-> "xml", root_tag |-> root_tag]

Garbled == [kind |-> "garbled", root_tag |-> ""]

Missing == [kind |-> "missing", root_tag |-> ""]

\* documents that are no JaCoCo report but parse: another root tag, around no
\* package at all or around the packages of a report
ForeignReports == {<<>>, <<Package(ComExample, <<Class(FooName, "Foo.java", <<Bar, Baz>>)>>)>>}

\* the names of the pool that the accessor patterns of the configuration
\* match: get*, set*, is*, toString, hashCode, equals
AccessorNames == {"getName", "setName", "isOpen", "toString", "hashCode", "equals"}

\* a class with an uncovered accessor and bar
AccessorReports ==
    {<<Package(ComExample,
               <<Class(FooName, "Foo.java", <<Method(name, <<Instruction(4, 0)>>), Bar>>)>>)>> :
        name \in AccessorNames}

Inputs ==
    {[document |-> Xml("report"), report |-> r] : r \in Reports \cup AccessorReports}
        \cup {[document |-> Xml("html"), report |-> r] : r \in ForeignReports}
        \cup {[document |-> Garbled, report |-> <<>>], [document |-> Missing, report |-> <<>>]}

(***************************************************************************)
(* The calls.                                                              *)
(***************************************************************************)
\* main is not running
LookupNotRun ==
    /\ files = {}
    /\ calls = <<>>
    /\ source_file = <<>>

OthersNotRun ==
    /\ LookupNotRun
    /\ kiwi_returned = <<>>
    /\ disk = <<>>
    /\ finder = [pc |-> "off"]
    /\ response = <<>>
    /\ code = <<>>

MainNotRun ==
    /\ main = [pc |-> "off", coverage_gaps |-> <<>>, max_classes |-> 0, at |-> 1,
               processed_count |-> 0]
    /\ test_dir = <<>>
    /\ test_dir_at_start = <<>>
    /\ generate_calls = <<>>

\* a caller other than main makes up to MaxCalls calls; main makes one
MayCall ==
    IF main.pc = "off" THEN Len(returned) < MaxCalls
    ELSE main.pc = "call" /\ returned = <<>>

Init ==
    /\ \E input \in Inputs : document = input.document /\ report = input.report
    /\ excludeAccessors \in (IF report \in AccessorReports THEN BOOLEAN ELSE {FALSE})
    /\ pc = "idle"
    /\ min_coverage = 0
    /\ pi = 1
    /\ ci = 1
    /\ class_methods = <<>>
    /\ total_class_methods = 0
    /\ covered_class_methods = 0
    /\ coverage_gaps = <<>>
    /\ returned = <<>>
    /\ frames = <<>>
    /\ MainNotRun
    /\ OthersNotRun

Call_KeepGaps(m) ==
    /\ pc = "idle"
    /\ document.kind = "xml"
    /\ MayCall
    /\ pc' = "walk"
    /\ min_coverage' = m
    /\ pi' = 1
    /\ ci' = 1
    /\ class_methods' = <<>>
    /\ total_class_methods' = 0
    /\ covered_class_methods' = 0
    /\ UNCHANGED <<elsewhere, given, coverage_gaps, returned>>

\* as find_jacoco_reports validates a report: another root tag, or no package,
\* and nothing is analysed
Call_ValidatesReport(m) ==
    /\ pc = "idle"
    /\ document.kind = "xml"
    /\ MayCall
    /\ pc' = "walk"
    /\ min_coverage' = m
    /\ coverage_gaps' = <<>>
    /\ pi' = IF document.root_tag = "report" THEN 1 ELSE Len(report) + 1
    /\ ci' = 1
    /\ class_methods' = <<>>
    /\ total_class_methods' = 0
    /\ covered_class_methods' = 0
    /\ UNCHANGED <<elsewhere, given, returned>>

\* find_coverage_gaps(jacoco_path, m) entered: the file exists, the tree is
\* parsed, whatever its root, and coverage_gaps = []
Call(m) ==
    /\ pc = "idle"
    /\ document.kind = "xml"
    /\ MayCall
    /\ pc' = "walk"
    /\ min_coverage' = m
    /\ coverage_gaps' = <<>>
    /\ pi' = 1
    /\ ci' = 1
    /\ class_methods' = <<>>
    /\ total_class_methods' = 0
    /\ covered_class_methods' = 0
    /\ UNCHANGED <<elsewhere, given, returned>>

\* the exception leaves the function
ParseFails_Raises(m) ==
    /\ pc = "idle"
    /\ document.kind = "garbled"
    /\ MayCall
    /\ pc' = "raised"
    /\ min_coverage' = m
    /\ UNCHANGED <<elsewhere, given, pi, ci, class_locals, coverage_gaps, returned>>

\* ET.parse raises on a file that is not well-formed XML; except Exception
\* prints the error and returns []
ParseFails(m) ==
    /\ pc = "idle"
    /\ document.kind = "garbled"
    /\ MayCall
    /\ min_coverage' = m
    /\ returned' = Append(returned, [min_coverage |-> m, gaps |-> <<>>])
    /\ UNCHANGED <<elsewhere, given, pc, pi, ci, class_locals, coverage_gaps>>

\* not os.path.exists(jacoco_path) and the glob for jacoco.xml finds nothing:
\* return []
ReportNotFound(m) ==
    /\ pc = "idle"
    /\ document.kind = "missing"
    /\ MayCall
    /\ min_coverage' = m
    /\ returned' = Append(returned, [min_coverage |-> m, gaps |-> <<>>])
    /\ UNCHANGED <<elsewhere, given, pc, pi, ci, class_locals, coverage_gaps>>

AtClass == pc = "walk" /\ pi <= Len(report) /\ ci <= Len(report[pi].classes)

clazz == report[pi].classes[ci]

\* package_name = package.attrib.get('name', '').replace('/', '.')
package_name == ReplaceSlash(Attr(report[pi].attrib, "name", <<>>))

\* class_name = clazz.attrib.get('name', '').replace('/', '.')
class_name == ReplaceSlash(Attr(clazz.attrib, "name", <<>>))

\* the classes of a package are exhausted: the outer loop takes the next package
NextPackage ==
    /\ pc = "walk"
    /\ pi <= Len(report)
    /\ ci > Len(report[pi].classes)
    /\ pi' = pi + 1
    /\ ci' = 1
    /\ UNCHANGED <<elsewhere, given, pc, min_coverage, class_locals, coverage_gaps, returned>>

\* if 'Test' in class_name: continue
SkipTestClass ==
    /\ AtClass
    /\ IsTestClass(class_name)
    /\ ci' = ci + 1
    /\ UNCHANGED <<elsewhere, given, pc, min_coverage, pi, class_locals, coverage_gaps, returned>>

\* if not source_file_name: continue
SkipClassWithoutSource ==
    /\ AtClass
    /\ ~IsTestClass(class_name)
    /\ HasNoSourceFile(clazz)
    /\ ci' = ci + 1
    /\ UNCHANGED <<elsewhere, given, pc, min_coverage, pi, class_locals, coverage_gaps, returned>>

\* the methods of the class are scanned; the class is appended if class_methods
AnalyzeClass ==
    /\ AtClass
    /\ ~IsTestClass(class_name)
    /\ ~HasNoSourceFile(clazz)
    /\ ~ScanRaises(clazz.methods)
    /\ LET scan == ScanMethods(NoMethods, clazz.methods, min_coverage)
       IN  /\ class_methods' = scan.class_methods
           /\ total_class_methods' = scan.total_class_methods
           /\ covered_class_methods' = scan.covered_class_methods
    /\ coverage_gaps' =
           AddIfListed(coverage_gaps, class_methods',
                       GapEntry(package_name, class_name, clazz.attrib.sourcefilename,
                                class_methods', covered_class_methods',
                                total_class_methods'))
    /\ ci' = ci + 1
    /\ UNCHANGED <<elsewhere, given, pc, min_coverage, pi, returned>>

\* what was collected is returned all the same
WalkFails_ReturnsCollected ==
    /\ AtClass
    /\ ~IsTestClass(class_name)
    /\ ~HasNoSourceFile(clazz)
    /\ ScanRaises(clazz.methods)
    /\ returned' = Append(returned, [min_coverage |-> min_coverage,
                                     gaps |-> SortGaps(coverage_gaps)])
    /\ pc' = "idle"
    /\ UNCHANGED <<elsewhere, given, min_coverage, pi, ci, class_locals, coverage_gaps>>

\* int() raises in the loop over the methods of the class: except Exception
\* prints the error and returns [], whatever coverage_gaps holds
WalkFails ==
    /\ AtClass
    /\ ~IsTestClass(class_name)
    /\ ~HasNoSourceFile(clazz)
    /\ ScanRaises(clazz.methods)
    /\ returned' = Append(returned, [min_coverage |-> min_coverage, gaps |-> <<>>])
    /\ pc' = "idle"
    /\ UNCHANGED <<elsewhere, given, min_coverage, pi, ci, class_locals, coverage_gaps>>

\* the packages are exhausted: coverage_gaps.sort(...); return coverage_gaps
SortAndReturn ==
    /\ pc = "walk"
    /\ pi > Len(report)
    /\ coverage_gaps' = SortGaps(coverage_gaps)
    /\ returned' = Append(returned, [min_coverage |-> min_coverage, gaps |-> coverage_gaps'])
    /\ pc' = "idle"
    /\ UNCHANGED <<elsewhere, given, min_coverage, pi, ci, class_locals>>

Next ==
    \/ \E m \in Thresholds : Call(m)
    \/ \E m \in Thresholds : ParseFails(m)
    \/ \E m \in Thresholds : ReportNotFound(m)
    \/ NextPackage
    \/ SkipTestClass
    \/ SkipClassWithoutSource
    \/ AnalyzeClass
    \/ SortAndReturn

Spec == Init /\ [][Next]_vars

(***************************************************************************)
(* Two calls of find_coverage_gaps in progress at once, each on a report   *)
(* of its own.  Everything the function assigns is a local of the call     *)
(* (jacoco_path, min_coverage, tree, root, coverage_gaps and the loop      *)
(* variables), so each call has a frame, and a step of one call is a step  *)
(* of the loops on its frame.                                              *)
(***************************************************************************)
Invocations == {1, 2}

\* single-package reports of one or two classes
ConcurrentReports ==
    {r \in WideReports : Len(r) = 1 /\ Len(r[1].classes) \in 1..2}

Frame(r) ==
    [report |-> r, pc |-> "new", min_coverage |-> 0, pi |-> 1, ci |-> 1,
     class_methods |-> <<>>, total_class_methods |-> 0, covered_class_methods |-> 0,
     coverage_gaps |-> <<>>, result |-> <<>>]

\* the function is entered with threshold m: coverage_gaps = []
Entered(f, m) == [f EXCEPT !.pc = "walk", !.min_coverage = m, !.coverage_gaps = <<>>]

\* one step of the loops of lines 56-121 on the frame f
StepFrame(f) ==
    IF f.pi > Len(f.report)
    THEN [f EXCEPT !.coverage_gaps = SortGaps(f.coverage_gaps),
                   !.result = SortGaps(f.coverage_gaps),
                   !.pc = "done"]
    ELSE IF f.ci > Len(f.report[f.pi].classes)
    THEN [f EXCEPT !.pi = f.pi + 1, !.ci = 1]
    ELSE LET class == f.report[f.pi].classes[f.ci]
             package == ReplaceSlash(Attr(f.report[f.pi].attrib, "name", <<>>))
             name == ReplaceSlash(Attr(class.attrib, "name", <<>>))
             scan == ScanMethods(NoMethods, class.methods, f.min_coverage)
         IN  IF IsTestClass(name) \/ HasNoSourceFile(class)
             THEN [f EXCEPT !.ci = f.ci + 1]
             ELSE IF ScanRaises(class.methods)
             THEN [f EXCEPT !.result = <<>>, !.pc = "done"]
             ELSE [f EXCEPT !.ci = f.ci + 1,
                            !.class_methods = scan.class_methods,
                            !.total_class_methods = scan.total_class_methods,
                            !.covered_class_methods = scan.covered_class_methods,
                            !.coverage_gaps =
                                AddIfListed(f.coverage_gaps, scan.class_methods,
                                            GapEntry(package, name, class.attrib.sourcefilename,
                                                     scan.class_methods,
                                                     scan.covered_class_methods,
                                                     scan.total_class_methods))]

\* the variables of the calls made one after the other
single == <<given, pc, min_coverage, pi, ci, class_locals, coverage_gaps, returned>>

\* no call is made on its own
SingleNotRun ==
    /\ document = Xml("report")
    /\ report = <<>>
    /\ excludeAccessors = FALSE
    /\ pc = "idle"
    /\ min_coverage = 0
    /\ pi = 1
    /\ ci = 1
    /\ class_methods = <<>>
    /\ total_class_methods = 0
    /\ covered_class_methods = 0
    /\ coverage_gaps = <<>>
    /\ returned = <<>>

InitConcurrent ==
    /\ OthersNotRun
    /\ frames \in [Invocations -> {Frame(r) : r \in ConcurrentReports}]
    /\ SingleNotRun
    /\ MainNotRun

Enter(i, m) ==
    /\ frames[i].pc = "new"
    /\ frames' = [frames EXCEPT ![i] = Entered(frames[i], m)]
    /\ UNCHANGED <<aside, single, generator>>

\* coverage_gaps as one list of the module, which every call appends to
Advance_SharedGaps(i) ==
    /\ frames[i].pc = "walk"
    /\ frames' = [j \in Invocations |->
                    IF j = i THEN StepFrame(frames[i])
                    ELSE [frames[j] EXCEPT !.coverage_gaps = StepFrame(frames[i]).coverage_gaps]]
    /\ UNCHANGED <<aside, single, generator>>

\* the call i takes its next step; the other call's frame is not touched
Advance(i) ==
    /\ frames[i].pc = "walk"
    /\ frames' = [frames EXCEPT ![i] = StepFrame(frames[i])]
    /\ UNCHANGED <<aside, single, generator>>

NextConcurrent ==
    \/ \E i \in Invocations : \E m \in Thresholds \ {0} : Enter(i, m)
    \/ \E i \in Invocations : Advance(i)

SpecConcurrent == InitConcurrent /\ [][NextConcurrent]_vars

(***************************************************************************)
(* main of jacoco_test_generator.py (that of sonarqube_test_generator.py   *)
(* has the same loop, with get_class_source alone in the place of          *)
(* find_source_file and get_class_source): from the list                   *)
(* find_coverage_gaps returned on, one step per class of                   *)
(* coverage_gaps[:args.max_classes].  What find_source_file,               *)
(* get_class_source and the test generation answer is the environment's    *)
(* choice.                                                                 *)
(***************************************************************************)
TestJava == <<"T", "e", "s", "t", ".", "j", "a", "v", "a">>

\* test_class_path of check_test_exists
TestClassPath_Dotted(name, dir) ==
    LET parts == Split(name, ".")
    IN  PathJoin(PathJoin(dir, JoinWith(AllButLast(parts), ".")), Last(parts) \o TestJava)

TestClassPath(name, dir) ==
    LET parts == Split(name, ".")
        simple_name == Last(parts)
        package_path == JoinWith(AllButLast(parts), "/")
    IN  PathJoin(PathJoin(dir, package_path), simple_name \o TestJava)

\* file_path of write_test_class
WriteFilePath(package, name, dir) ==
    LET package_path == PathJoin(dir, ReplaceDot(package))
        simple_name == Last(Split(name, "."))
    IN  PathJoin(package_path, simple_name \o TestJava)

\* simple_class_name and package_name of the loop body
SimpleClassName(name) == Last(Split(name, "."))

PackageName(name) == JoinWith(AllButLast(Split(name, ".")), ".")

\* the inputs: args.test_dir, the classes of the gap list (in a package of
\* two levels, of one level, and in the default package) and the test files
\* that may be there already
TestDirArg == <<"t">>

ABC == <<"a", ".", "b", ".", "C">>

AD == <<"a", ".", "D">>

E == <<"E">>

ClassNames == {ABC, AD, E}

TestFileOf(name) ==
    CASE name = ABC -> <<"t", "/", "a", "/", "b", "/", "C">> \o TestJava
      [] name = AD -> <<"t", "/", "a", "/", "D">> \o TestJava
      [] name = E -> <<"t", "/", "E">> \o TestJava

GapLists ==
    {gaps \in UNION {[1..n -> ClassNames] : n \in 0..Cardinality(ClassNames)} :
        \A i, j \in 1..Len(gaps) : i # j => gaps[i] # gaps[j]}

MaxClassesArgs == (0 - MaxClasses)..MaxClasses

InitMain ==
    /\ OthersNotRun
    /\ \E gaps \in GapLists : \E n \in MaxClassesArgs :
          main = [pc |-> "start", coverage_gaps |-> gaps, max_classes |-> n, at |-> 1,
                  processed_count |-> 0]
    /\ \E tested \in SUBSET ClassNames :
          test_dir = [path \in {TestFileOf(name) : name \in tested} |-> "existing"]
    /\ test_dir_at_start = test_dir
    /\ generate_calls = <<>>
    /\ frames = <<>>
    /\ SingleNotRun

\* if not coverage_gaps: return
ReturnNoGaps ==
    /\ main.pc = "start"
    /\ main.coverage_gaps = <<>>
    /\ main' = [main EXCEPT !.pc = "done"]
    /\ UNCHANGED <<aside, single, frames, test_dir, test_dir_at_start, generate_calls>>

\* processed_count = 0 and the loop is entered
BeginLoop ==
    /\ main.pc = "start"
    /\ main.coverage_gaps # <<>>
    /\ main' = [main EXCEPT !.pc = "loop", !.at = 1, !.processed_count = 0]
    /\ UNCHANGED <<aside, single, frames, test_dir, test_dir_at_start, generate_calls>>

candidates == SliceTo(main.coverage_gaps, main.max_classes)

InLoop == main.pc = "loop" /\ main.at <= Len(candidates)

class_data == candidates[main.at]

check_test_exists == TestClassPath(class_data, TestDirArg) \in DOMAIN test_dir

\* if check_test_exists(class_name, args.test_dir): continue
SkipExistingTest ==
    /\ InLoop
    /\ check_test_exists
    /\ main' = [main EXCEPT !.at = main.at + 1]
    /\ UNCHANGED <<aside, single, frames, test_dir, test_dir_at_start, generate_calls>>

\* find_source_file returned None: continue
SkipSourceNotFound ==
    /\ InLoop
    /\ ~check_test_exists
    /\ main' = [main EXCEPT !.at = main.at + 1]
    /\ UNCHANGED <<aside, single, frames, test_dir, test_dir_at_start, generate_calls>>

\* get_class_source returned nothing: continue
SkipSourceUnreadable ==
    /\ InLoop
    /\ ~check_test_exists
    /\ main' = [main EXCEPT !.at = main.at + 1]
    /\ UNCHANGED <<aside, single, frames, test_dir, test_dir_at_start, generate_calls>>

\* generate_complete_test_class returned nothing: continue
GenerateNothing ==
    /\ InLoop
    /\ ~check_test_exists
    /\ generate_calls' = Append(generate_calls, class_data)
    /\ main' = [main EXCEPT !.at = main.at + 1]
    /\ UNCHANGED <<aside, single, frames, test_dir, test_dir_at_start>>

\* generate_complete_test_class raised: except Exception, continue
GenerateRaises ==
    /\ InLoop
    /\ ~check_test_exists
    /\ generate_calls' = Append(generate_calls, class_data)
    /\ main' = [main EXCEPT !.at = main.at + 1]
    /\ UNCHANGED <<aside, single, frames, test_dir, test_dir_at_start>>

\* the test code came back: write_test_class(package_name, simple_class_name,
\* test_code, args.test_dir); processed_count += 1
WriteTest ==
    /\ InLoop
    /\ ~check_test_exists
    /\ generate_calls' = Append(generate_calls, class_data)
    /\ LET file_path == WriteFilePath(PackageName(class_data),
                                      SimpleClassName(class_data), TestDirArg)
       IN  test_dir' = [path \in DOMAIN test_dir \cup {file_path} |->
                           IF path = file_path THEN "generated" ELSE test_dir[path]]
    /\ main' = [main EXCEPT !.at = main.at + 1, !.processed_count = main.processed_count + 1]
    /\ UNCHANGED <<aside, single, frames, test_dir_at_start>>

\* the test code came back and write_test_class raised (os.makedirs or open
\* failed and no file is there, or f.write failed and a truncated file is):
\* except Exception, continue
WriteRaises ==
    /\ InLoop
    /\ ~check_test_exists
    /\ generate_calls' = Append(generate_calls, class_data)
    /\ LET file_path == WriteFilePath(PackageName(class_data),
                                      SimpleClassName(class_data), TestDirArg)
       IN  \/ test_dir' = test_dir
           \/ test_dir' = [path \in DOMAIN test_dir \cup {file_path} |->
                              IF path = file_path THEN "truncated" ELSE test_dir[path]]
    /\ main' = [main EXCEPT !.at = main.at + 1]
    /\ UNCHANGED <<aside, single, frames, test_dir_at_start>>

\* the loop is over: print(f"Generated tests for {processed_count} classes")
EndLoop ==
    /\ main.pc = "loop"
    /\ main.at > Len(candidates)
    /\ main' = [main EXCEPT !.pc = "done"]
    /\ UNCHANGED <<aside, single, frames, test_dir, test_dir_at_start, generate_calls>>

NextMain ==
    \/ ReturnNoGaps
    \/ BeginLoop
    \/ SkipExistingTest
    \/ SkipSourceNotFound
    \/ SkipSourceUnreadable
    \/ GenerateNothing
    \/ GenerateRaises
    \/ WriteTest
    \/ WriteRaises
    \/ EndLoop

SpecMain == InitMain /\ [][NextMain]_vars

(***************************************************************************)
(* One run of the script on a report file: main calls find_coverage_gaps   *)
(* once and loops over what it returned.  The reports here include ones    *)
(* whose counters carry text that int() rejects.                           *)
(***************************************************************************)
\* reports of a run: none, a sound one, three where int() raises on an
\* INSTRUCTION counter (after a gap was collected, before any, in a second
\* package), and one whose ill-typed counters are never read
RunReports ==
    LET NotANumber == [type |-> "INSTRUCTION", missed_text |-> "many", covered |-> 2]
        Bad == Method("bad", <<NotANumber>>)
        Odd == Method("odd", <<[type |-> "INSTRUCTION", missed |-> 3, covered_text |-> "2.5"]>>)
        BadCtor == Method("<init>", <<NotANumber>>)
        BadLine == Method("line", <<[type |-> "LINE", missed_text |-> "many", covered |-> 2],
                                    Instruction(8, 2)>>)
        BadSecond == Method("second", <<Instruction(0, 10), NotANumber>>)
        RunClass(p, i, methods) ==
            Class(PackageNameAt(p) \o <<"/", "C", Digits[i]>>, "C.java", methods)
        Unsourced(p, i) ==
            [attrib |-> [name |-> PackageNameAt(p) \o <<"/", "C", Digits[i]>>],
             methods |-> <<Bar>>]
        TesterWith(p, i, methods) ==
            Class(PackageNameAt(p) \o <<"/", "T", "e", "s", "t", "e", "r", Digits[i]>>,
                  "T.java", methods)
    IN  {<<>>,
         <<Package(PackageNameAt(1), <<RunClass(1, 1, <<Cold>>), TesterWith(1, 2, <<Cold>>),
                                       Unsourced(1, 3), RunClass(1, 4, <<Bar, Edge>>)>>)>>,
         <<Package(PackageNameAt(1), <<RunClass(1, 1, <<Cold>>),
                                       RunClass(1, 2, <<Bar, Bad>>)>>)>>,
         <<Package(PackageNameAt(1), <<RunClass(1, 1, <<Bad>>), RunClass(1, 2, <<Cold>>)>>)>>,
         <<Package(PackageNameAt(1), <<RunClass(1, 1, <<Cold>>)>>),
           Package(PackageNameAt(2), <<RunClass(2, 1, <<Baz, Odd>>)>>)>>,
         <<Package(PackageNameAt(1), <<RunClass(1, 1, <<BadCtor, Bar>>),
                                       TesterWith(1, 2, <<Bad>>),
                                       RunClass(1, 3, <<BadLine, BadSecond>>)>>)>>}

RunInputs ==
    {[document |-> Xml("report"), report |-> r] : r \in RunReports}
        \cup {[document |-> Garbled, report |-> <<>>], [document |-> Missing, report |-> <<>>]}

\* --max-classes
RunMaxClasses == {-1, 0, 1, 5}

\* the dotted names of the class elements of a report
NamesIn(r) ==
    UNION {{ReplaceSlash(r[p].classes[c].attrib.name) : c \in 1..Len(r[p].classes)} :
              p \in 1..Len(r)}

InitRun ==
    /\ OthersNotRun
    /\ \E input \in RunInputs :
          /\ document = input.document
          /\ report = input.report
    /\ excludeAccessors = FALSE
    /\ pc = "idle"
    /\ min_coverage = 0
    /\ pi = 1
    /\ ci = 1
    /\ class_methods = <<>>
    /\ total_class_methods = 0
    /\ covered_class_methods = 0
    /\ coverage_gaps = <<>>
    /\ returned = <<>>
    /\ frames = <<>>
    /\ \E n \in RunMaxClasses :
          main = [pc |-> "call", coverage_gaps |-> <<>>, max_classes |-> n, at |-> 1,
                  processed_count |-> 0]
    /\ \E tested \in {names \in SUBSET NamesIn(report) : Cardinality(names) <= 1} :
          test_dir = [path \in {TestClassPath(name, TestDirArg) : name \in tested} |->
                         "existing"]
    /\ test_dir_at_start = test_dir
    /\ generate_calls = <<>>

\* coverage_gaps = find_coverage_gaps(args.xml_path, args.min_coverage): the
\* loop of main reads class_data['class'] of each gap
MainTakesGaps ==
    /\ main.pc = "call"
    /\ pc = "idle"
    /\ returned # <<>>
    /\ main' = [main EXCEPT !.pc = "start",
                            !.coverage_gaps = [i \in 1..Len(returned[1].gaps) |->
                                                  returned[1].gaps[i].class]]
    /\ UNCHANGED <<aside, single, frames, test_dir, test_dir_at_start, generate_calls>>

NextRun ==
    \/ \E m \in Thresholds : Call(m)
    \/ \E m \in Thresholds : ParseFails(m)
    \/ \E m \in Thresholds : ReportNotFound(m)
    \/ NextPackage
    \/ SkipTestClass
    \/ SkipClassWithoutSource
    \/ AnalyzeClass
    \/ WalkFails
    \/ SortAndReturn
    \/ MainTakesGaps
    \/ ReturnNoGaps
    \/ BeginLoop
    \/ SkipExistingTest
    \/ SkipSourceNotFound
    \/ SkipSourceUnreadable
    \/ GenerateNothing
    \/ GenerateRaises
    \/ WriteTest
    \/ WriteRaises
    \/ EndLoop

SpecRun == InitRun /\ [][NextRun]_vars

(***************************************************************************)
(* find_source_file(class_name, src_dirs), one frame of the stack per call *)
(* in progress.  A frame is at "direct" (the loop over os.path.exists), at *)
(* "find" (the loop over the find commands), at "fallback" (after both),   *)
(* at "waiting" (inside its recursive call) or at "returned" (back from    *)
(* it).  A return value is <<>> for None and <<path>> for a path.          *)
(***************************************************************************)
\* the stack holds at most MaxDepth frames
MaxDepth == 3

\* ['src/main/java', 'src']
FallbackDirs ==
    <<(<<"s", "r", "c", "/", "m", "a", "i", "n", "/", "j", "a", "v", "a">>), (<<"s", "r", "c">>)>>

\* f"{simple_name}.java"
JavaFile(simple_name) == simple_name \o <<".", "j", "a", "v", "a">>

\* os.path.join(src_dir, package_path, f"{simple_name}.java")
DirectPath(name, src_dir) ==
    LET parts == Split(name, ".")
        simple_name == Last(parts)
        package_path == JoinWith(AllButLast(parts), "/")
    IN  PathJoin(PathJoin(src_dir, package_path), JavaFile(simple_name))

\* what find <src_dir> -name <simple_name>.java prints, as a set: the order
\* of its lines is the order in which find meets the directory entries
FindOutput(name, src_dir) ==
    {f \in files :
        /\ Len(f) > Len(src_dir) + 1
        /\ SubSeq(f, 1, Len(src_dir) + 1) = src_dir \o <<"/">>
        /\ Last(Split(f, "/")) = JavaFile(Last(Split(name, ".")))}

\* the first line that has package_path in it, else files[0]: the lines
\* that can be returned whatever their order
FindPicks(name, out) ==
    LET package_path == JoinWith(AllButLast(Split(name, ".")), "/")
        inside == {f \in out : Contains(f, package_path)}
    IN  IF inside # {} THEN inside ELSE out

\* a call begins: both loops run no iteration on an empty list
NewFrame(name, dirs) ==
    [class_name |-> name, src_dirs |-> dirs, at |-> 1, result |-> <<>>,
     pc |-> IF dirs = <<>> THEN "fallback" ELSE "direct"]

top == calls[Len(calls)]

\* return value: to main when the call is the outermost, else to the caller
\* (result = find_source_file(...))
Return(value) ==
    IF Len(calls) = 1
    THEN calls' = <<>> /\ source_file' = value
    ELSE /\ calls' = [SubSeq(calls, 1, Len(calls) - 1) EXCEPT
                         ![Len(calls) - 1].pc = "returned",
                         ![Len(calls) - 1].result = value]
         /\ UNCHANGED source_file

\* the loop takes the next src_dir, or ends and the code after it runs
NextDir(after) ==
    calls' = [calls EXCEPT ![Len(calls)] =
                 IF top.at < Len(top.src_dirs)
                 THEN [top EXCEPT !.at = top.at + 1]
                 ELSE [top EXCEPT !.at = 1, !.pc = after]]

InitLookup ==
    LET S == <<"s">>
        names == {<<"a", ".", "C">>, <<"C">>, <<"b", ".", "C">>}
        paths == {<<"s", "/", "a", "/", "C", ".", "j", "a", "v", "a">>,
                  <<"s", "/", "x", "/", "b", "/", "C", ".", "j", "a", "v", "a">>,
                  <<"s", "/", "C", ".", "j", "a", "v", "a">>,
                  FallbackDirs[1] \o <<"/", "a", "/", "C", ".", "j", "a", "v", "a">>,
                  FallbackDirs[2] \o <<"/", "x", "/", "C", ".", "j", "a", "v", "a">>}
        dir_lists == {<<>>, <<S>>, <<FallbackDirs[1]>>, <<S, FallbackDirs[1]>>,
                      <<FallbackDirs[2], S>>}
    IN  /\ files \in SUBSET paths
        /\ \E name \in names : \E dirs \in dir_lists : calls = <<NewFrame(name, dirs)>>
        /\ source_file = <<>>
        /\ frames = <<>>
        /\ SingleNotRun
        /\ MainNotRun
        /\ kiwi_returned = <<>>
        /\ disk = <<>>
        /\ finder = [pc |-> "off"]
        /\ response = <<>>
        /\ code = <<>>

\* if os.path.exists(class_path): return class_path
DirectHit ==
    /\ calls # <<>>
    /\ top.pc = "direct"
    /\ DirectPath(top.class_name, top.src_dirs[top.at]) \in files
    /\ Return(<<DirectPath(top.class_name, top.src_dirs[top.at])>>)
    /\ UNCHANGED <<files, single, frames, generator, kiwi_returned, disk, finder, response, code>>

DirectMiss ==
    /\ calls # <<>>
    /\ top.pc = "direct"
    /\ DirectPath(top.class_name, top.src_dirs[top.at]) \notin files
    /\ NextDir("find")
    /\ UNCHANGED <<files, source_file, single, frames, generator, kiwi_returned, disk, finder, response, code>>

\* if result.stdout: ... return file, or return files[0]
FindHit ==
    /\ calls # <<>>
    /\ top.pc = "find"
    /\ \E file \in FindPicks(top.class_name, FindOutput(top.class_name, top.src_dirs[top.at])) :
          Return(<<file>>)
    /\ UNCHANGED <<files, single, frames, generator, kiwi_returned, disk, finder, response, code>>

\* find printed nothing
FindMiss ==
    /\ calls # <<>>
    /\ top.pc = "find"
    /\ FindOutput(top.class_name, top.src_dirs[top.at]) = {}
    /\ NextDir("fallback")
    /\ UNCHANGED <<files, source_file, single, frames, generator, kiwi_returned, disk, finder, response, code>>

\* subprocess.run raised (find cannot be started): except Exception prints
\* and the loop goes on
FindRaises ==
    /\ calls # <<>>
    /\ top.pc = "find"
    /\ NextDir("fallback")
    /\ UNCHANGED <<files, source_file, single, frames, generator, kiwi_returned, disk, finder, response, code>>

\* the guard of the recursive call is dropped
Recurse_Always ==
    /\ calls # <<>>
    /\ top.pc = "fallback"
    /\ Len(calls) < MaxDepth
    /\ calls' = Append([calls EXCEPT ![Len(calls)].pc = "waiting"],
                       NewFrame(top.class_name, top.src_dirs \o FallbackDirs))
    /\ UNCHANGED <<files, source_file, single, frames, generator, kiwi_returned, disk, finder, response, code>>

\* if 'src/main/java' not in src_dirs:
\*     result = find_source_file(class_name, src_dirs + ['src/main/java', 'src'])
Recurse ==
    /\ calls # <<>>
    /\ top.pc = "fallback"
    /\ \A n \in 1..Len(top.src_dirs) : top.src_dirs[n] # FallbackDirs[1]
    /\ Len(calls) < MaxDepth
    /\ calls' = Append([calls EXCEPT ![Len(calls)].pc = "waiting"],
                       NewFrame(top.class_name, top.src_dirs \o FallbackDirs))
    /\ UNCHANGED <<files, source_file, single, frames, generator, kiwi_returned, disk, finder, response, code>>

\* 'src/main/java' is in src_dirs: print, return None
ReturnNone ==
    /\ calls # <<>>
    /\ top.pc = "fallback"
    /\ \E n \in 1..Len(top.src_dirs) : top.src_dirs[n] = FallbackDirs[1]
    /\ Return(<<>>)
    /\ UNCHANGED <<files, single, frames, generator, kiwi_returned, disk, finder, response, code>>

\* if result: return result; else print, return None
AfterRecursion ==
    /\ calls # <<>>
    /\ top.pc = "returned"
    /\ Return(IF top.result # <<>> THEN top.result ELSE <<>>)
    /\ UNCHANGED <<files, single, frames, generator, kiwi_returned, disk, finder, response, code>>

NextLookup ==
    \/ DirectHit
    \/ DirectMiss
    \/ FindHit
    \/ FindMiss
    \/ FindRaises
    \/ Recurse
    \/ ReturnNone
    \/ AfterRecursion

\* a call in progress takes its next step
SpecLookup == InitLookup /\ [][NextLookup]_vars /\ WF_vars(NextLookup)

(***************************************************************************)
(* find_coverage_gaps of test_generator.py: one action per call, computed  *)
(* by the operators below on the report the other find_coverage_gaps reads.*)
(***************************************************************************)
\* s.startswith(prefix)
StartsWith(s, prefix) ==
    Len(s) >= Len(prefix) /\ SubSeq(s, 1, Len(prefix)) = prefix

\* s.lower()
Lower(s) ==
    LET upper == <<"A", "B", "C", "D", "E", "F", "G", "H", "I", "J", "K", "L", "M",
                   "N", "O", "P", "Q", "R", "S", "T", "U", "V", "W", "X", "Y", "Z">>
        lower == <<"a", "b", "c", "d", "e", "f", "g", "h", "i", "j", "k", "l", "m",
                   "n", "o", "p", "q", "r", "s", "t", "u", "v", "w", "x", "y", "z">>
    IN  [i \in 1..Len(s) |->
            IF \E n \in 1..26 : upper[n] = s[i]
            THEN lower[CHOOSE n \in 1..26 : upper[n] = s[i]]
            ELSE s[i]]

\* the characters of a method name
Chars(method_name) ==
    CASE
         method_name = "bar" -> <<"b", "a", "r">>
      [] method_name = "baz" -> <<"b", "a", "z">>
      [] method_name = "<init>" -> <<"<", "i", "n", "i", "t", ">">>
      [] method_name = "edge" -> <<"e", "d", "g", "e">>
      [] method_name = "cold" -> <<"c", "o", "l", "d">>
      [] method_name = "run" -> <<"r", "u", "n">>
      [] method_name = "nop" -> <<"n", "o", "p">>
      [] method_name = "tie" -> <<"t", "i", "e">>
      [] method_name = "lambda$0" -> <<"l", "a", "m", "b", "d", "a", "$", "0">>
      [] method_name = "toString" -> <<"t", "o", "S", "t", "r", "i", "n", "g">>
      [] method_name = "hashCode" -> <<"h", "a", "s", "h", "C", "o", "d", "e">>
      [] method_name = "equals" -> <<"e", "q", "u", "a", "l", "s">>
      [] method_name = "lambda" -> <<"l", "a", "m", "b", "d", "a">>

\* no lower(): 'MtomService' is not 'mtomservice'
KiwiSkipsPackage_CaseSensitive(name) ==
    \/ StartsWith(name, <<"w", "s", ".", "e", "x", "a", "m", "p", "l", "e", ".", "w", "s", ".", "x", "m", "l", ".", "j", "a", "k", "a", "r", "t", "a">>)
    \/ Contains(name, <<"w", "s", "d", "l", "f", "i", "r", "s", "t", "s", "e", "r", "v", "i", "c", "e">>)
    \/ Contains(name, <<"m", "t", "o", "m", "s", "e", "r", "v", "i", "c", "e">>)
    \/ ~StartsWith(name, <<"o", "r", "g", ".", "k", "i", "w", "i", "p", "r", "o", "j", "e", "c", "t">>)

\* the two "continue" of the loop over the packages
KiwiSkipsPackage(name) ==
    \/ StartsWith(name, <<"w", "s", ".", "e", "x", "a", "m", "p", "l", "e", ".", "w", "s", ".", "x", "m", "l", ".", "j", "a", "k", "a", "r", "t", "a">>)
    \/ Contains(Lower(name), <<"w", "s", "d", "l", "f", "i", "r", "s", "t", "s", "e", "r", "v", "i", "c", "e">>)
    \/ Contains(Lower(name), <<"m", "t", "o", "m", "s", "e", "r", "v", "i", "c", "e">>)
    \/ ~StartsWith(name, <<"o", "r", "g", ".", "k", "i", "w", "i", "p", "r", "o", "j", "e", "c", "t">>)

\* the "continue" of the loop over the methods
KiwiSkipsMethod(method_name) ==
    \/ method_name = "<init>"
    \/ StartsWith(Chars(method_name), <<"l", "a", "m", "b", "d", "a", "$">>)
    \/ method_name = "toString"
    \/ method_name = "hashCode"
    \/ method_name = "equals"

\* one iteration of "for method in clazz.findall('method')"
KiwiMethodStep(acc, method, min) ==
    LET method_name == Attr(method.attrib, "name", "")
        counter == FindInstructionCounter(method.counters)
        missed == Missed(counter)
        covered == Covered(counter)
        coverage == CoveragePercentage(missed, covered)
    IN  IF KiwiSkipsMethod(method_name) THEN acc
        ELSE IF counter = NoCounter
        THEN [acc EXCEPT !.total_class_methods = @ + 1]
        ELSE [class_methods |->
                  IF Qualifies(coverage, min)
                  THEN Append(acc.class_methods,
                              [method |-> method_name,
                               desc |-> Attr(method.attrib, "desc", ""),
                               coverage_percentage |-> coverage,
                               missed_instructions |-> missed,
                               priority |-> missed])
                  ELSE acc.class_methods,
              total_class_methods |-> acc.total_class_methods + 1,
              covered_class_methods |->
                  acc.covered_class_methods + (IF covered > 0 THEN 1 ELSE 0)]

RECURSIVE KiwiScanMethods(_, _, _)
KiwiScanMethods(acc, methods, min) ==
    IF methods = <<>> THEN acc
    ELSE KiwiScanMethods(KiwiMethodStep(acc, Head(methods), min), Tail(methods), min)

\* the body of the loop over the classes: what it appends to coverage_gaps
\* (attrib.get('sourcefilename') is None, written "None", when there is none)
KiwiClassGap(package, class, min) ==
    LET name == ReplaceSlash(Attr(class.attrib, "name", <<>>))
        scan == KiwiScanMethods(NoMethods, class.methods, min)
    IN  IF IsTestClass(name) \/ scan.class_methods = <<>> THEN <<>>
        ELSE <<[package |-> ReplaceSlash(Attr(package.attrib, "name", <<>>)),
                class |-> name,
                source_file |-> Attr(class.attrib, "sourcefilename", "None"),
                methods |-> SortDescending(<<>>, scan.class_methods),
                class_coverage |-> ClassCoverage(scan.covered_class_methods,
                                                 scan.total_class_methods),
                priority |-> SumMissed(scan.class_methods)]>>

\* the two loops from class c of package p on
RECURSIVE KiwiGaps(_, _, _, _)
KiwiGaps(packages, p, c, min) ==
    IF p > Len(packages) THEN <<>>
    ELSE IF \/ c > Len(packages[p].classes)
            \/ KiwiSkipsPackage(ReplaceSlash(Attr(packages[p].attrib, "name", <<>>)))
    THEN KiwiGaps(packages, p + 1, 1, min)
    ELSE KiwiClassGap(packages[p], packages[p].classes[c], min)
             \o KiwiGaps(packages, p, c + 1, min)

\* packages in and out of org.kiwiproject, with classes whose methods tie
\* on missed instructions or have the names that are skipped
KiwiReports ==
    LET Tie == Method("tie", <<Instruction(8, 0)>>)
        Lambda == Method("lambda$0", <<Instruction(9, 0)>>)
        Text == Method("toString", <<Instruction(5, 0)>>)
        HashCode == Method("hashCode", <<Instruction(3, 0)>>)
        Equals == Method("equals", <<Instruction(7, 1)>>)
        LambdaLike == Method("lambda", <<Instruction(4, 0)>>)
        names == {<<"o", "r", "g", "/", "k", "i", "w", "i", "p", "r", "o", "j", "e", "c", "t", "/", "a">>,
                  <<"o", "r", "g", "/", "k", "i", "w", "i", "p", "r", "o", "j", "e", "c", "t", "s">>,
                  <<"c", "o", "m", "/", "e", "x", "a", "m", "p", "l", "e">>,
                  <<"w", "s", "/", "e", "x", "a", "m", "p", "l", "e", "/", "w", "s", "/", "x", "m", "l", "/", "j", "a", "k", "a", "r", "t", "a", "/", "g">>,
                  <<"o", "r", "g", "/", "k", "i", "w", "i", "p", "r", "o", "j", "e", "c", "t", "/", "M", "t", "o", "m", "S", "e", "r", "v", "i", "c", "e">>,
                  <<"o", "r", "g", "/", "k", "i", "w", "i", "p", "r", "o", "j", "e", "c", "t", "/", "w", "s", "d", "l", "f", "i", "r", "s", "t", "s", "e", "r", "v", "i", "c", "e", "/", "x">>,
                  <<"x", "/", "o", "r", "g", "/", "k", "i", "w", "i", "p", "r", "o", "j", "e", "c", "t">>}
        A(name, methods) == Class(name \o <<"/", "A">>, "A.java", methods)
        B(name, methods) == [attrib |-> [name |-> name \o <<"/", "B">>], methods |-> methods]
        ATest(name, methods) ==
            Class(name \o <<"/", "A", "T", "e", "s", "t">>, "ATest.java", methods)
        Lists(name) ==
            {<<A(name, <<Edge, Cold, Bar>>)>>,
             <<A(name, <<Tie, Cold, Bar>>), B(name, <<Lambda, Text, Baz>>)>>,
             <<A(name, <<Bar, Lambda, HashCode, Equals, Tie>>), ATest(name, <<Cold>>)>>,
             <<A(name, <<LambdaLike, Nop>>), B(name, <<Bar, Tie, Cold>>)>>,
             <<A(name, <<Ctor, Text>>)>>}
    IN  UNION {{<<Package(name, classes)>> : classes \in Lists(name)} : name \in names}
            \cup UNION {{<<Package(ComExample, <<A(ComExample, <<Cold>>)>>),
                            Package(PackageNameAt(1), <<A(PackageNameAt(1), <<Tie>>)>>),
                            Package(name, classes)>> : classes \in Lists(name)} :
                         name \in {<<"o", "r", "g", "/", "k", "i", "w", "i", "p", "r", "o", "j", "e", "c", "t", "/", "a">>,
                                   <<"o", "r", "g", "/", "k", "i", "w", "i", "p", "r", "o", "j", "e", "c", "t", "/">>
                                       \o <<"M", "t", "o", "m", "S", "e", "r", "v", "i", "c", "e">>}}

InitKiwi ==
    /\ \E input \in {[document |-> Xml("report"), report |-> r] : r \in KiwiReports}
                        \cup {[document |-> Garbled, report |-> <<>>],
                              [document |-> Missing, report |-> <<>>]} :
          /\ document = input.document
          /\ report = input.report
    /\ excludeAccessors = FALSE
    /\ pc = "idle"
    /\ min_coverage = 0
    /\ pi = 1
    /\ ci = 1
    /\ class_methods = <<>>
    /\ total_class_methods = 0
    /\ covered_class_methods = 0
    /\ coverage_gaps = <<>>
    /\ returned = <<>>
    /\ frames = <<>>
    /\ MainNotRun
    /\ OthersNotRun

\* coverage_gaps = find_coverage_gaps(jacoco_report, args.min_coverage), once
\* in a run of test_generator.py: ET.parse raises on a file that is missing
\* or not well-formed and except Exception returns []
KiwiCall(m) ==
    /\ pc = "idle"
    /\ kiwi_returned = <<>>
    /\ kiwi_returned' =
           <<[min_coverage |-> m,
              gaps |-> IF document.kind = "xml"
                       THEN SortGaps(KiwiGaps(report, 1, 1, m))
                       ELSE <<>>]>>
    /\ UNCHANGED <<single, frames, generator, lookup, disk, finder, response, code>>

NextKiwi ==
    \/ \E m \in Thresholds : Call(m)
    \/ \E m \in Thresholds : ParseFails(m)
    \/ \E m \in Thresholds : ReportNotFound(m)
    \/ NextPackage
    \/ SkipTestClass
    \/ SkipClassWithoutSource
    \/ AnalyzeClass
    \/ SortAndReturn
    \/ \E m \in Thresholds : KiwiCall(m)

SpecKiwi == InitKiwi /\ [][NextKiwi]_vars

(***************************************************************************)
(* find_jacoco_reports of jacoco_finder.py.  A path is the sequence of its *)
(* components below base_dir; disk maps the path of each XML file there to *)
(* what ET.parse finds in it.                                              *)
(***************************************************************************)
common_patterns ==
    <<(<<"target", "site", "jacoco", "jacoco.xml">>),
      (<<"target", "site", "jacoco-aggregate", "jacoco.xml">>),
      (<<"target", "site", "jacoco-it", "jacoco.xml">>),
      (<<"build", "reports", "jacoco", "test", "jacocoTestReport.xml">>),
      (<<"jacoco.xml">>)>>

\* Path(base_dir).glob("**/" + tail): the files whose last components are
\* tail, under any number of directories
Glob(tail) ==
    {path \in DOMAIN disk :
        /\ Len(path) >= Len(tail)
        /\ SubSeq(path, Len(path) - Len(tail) + 1, Len(path)) = tail}

\* the orders in which a glob can yield a set of paths
Orders(paths) ==
    {order \in [1..Cardinality(paths) -> paths] :
        \A i, j \in 1..Cardinality(paths) : order[i] = order[j] => i = j}

InitFinder ==
    LET contents == {[parses |-> TRUE, root_tag |-> "report", named |-> TRUE, packages |-> 1],
                     [parses |-> TRUE, root_tag |-> "report", named |-> FALSE, packages |-> 2],
                     [parses |-> TRUE, root_tag |-> "report", named |-> TRUE, packages |-> 0],
                     [parses |-> TRUE, root_tag |-> "project", named |-> TRUE, packages |-> 0],
                     [parses |-> FALSE, root_tag |-> "", named |-> FALSE, packages |-> 0]}
        paths == {<<"target", "site", "jacoco", "jacoco.xml">>,
                  <<"jacoco.xml">>,
                  <<"build", "reports", "jacoco", "test", "jacocoTestReport.xml">>,
                  <<"m", "pom.xml">>}
    IN  /\ \E there \in SUBSET paths : disk \in [there -> contents]
        /\ finder = [pc |-> "search", at |-> 1, found_reports |-> <<>>,
                     valid_reports |-> <<>>]
        /\ frames = <<>>
        /\ SingleNotRun
        /\ MainNotRun
        /\ LookupNotRun
        /\ kiwi_returned = <<>>
        /\ response = <<>>
        /\ code = <<>>

\* one iteration of "for pattern in common_patterns", and "if not
\* found_reports" after the last
SearchPattern ==
    /\ finder.pc = "search"
    /\ \E reports \in Orders(Glob(common_patterns[finder.at])) :
          LET found == finder.found_reports \o reports
          IN  finder' =
                  IF finder.at < Len(common_patterns)
                  THEN [finder EXCEPT !.found_reports = found, !.at = finder.at + 1]
                  ELSE [finder EXCEPT !.found_reports = found, !.at = 1,
                                      !.pc = IF found = <<>> THEN "fallback" ELSE "validate"]
    /\ UNCHANGED <<disk, single, frames, generator, lookup, kiwi_returned, response, code>>

\* nothing matched: every XML file that parses to a root 'report' with a
\* 'name' attribute is found
SearchAllXml ==
    /\ finder.pc = "fallback"
    /\ \E xml_files \in Orders(DOMAIN disk) :
          LET IsReport(path) ==
                  disk[path].parses /\ disk[path].root_tag = "report" /\ disk[path].named
          IN  finder' = [finder EXCEPT !.found_reports = SelectSeq(xml_files, IsReport),
                                       !.pc = "validate", !.at = 1]
    /\ UNCHANGED <<disk, single, frames, generator, lookup, kiwi_returned, response, code>>

\* one iteration of "for report in found_reports": appended when it parses
\* to a root 'report' with a package below it, else a message is printed
Validate ==
    /\ finder.pc = "validate"
    /\ finder.at <= Len(finder.found_reports)
    /\ LET path == finder.found_reports[finder.at]
           valid == /\ disk[path].parses
                    /\ disk[path].root_tag = "report"
                    /\ disk[path].packages > 0
       IN  finder' = [finder EXCEPT !.at = finder.at + 1,
                                    !.valid_reports = IF valid THEN Append(@, path) ELSE @]
    /\ UNCHANGED <<disk, single, frames, generator, lookup, kiwi_returned, response, code>>

\* return valid_reports
ReturnReports ==
    /\ finder.pc = "validate"
    /\ finder.at > Len(finder.found_reports)
    /\ finder' = [finder EXCEPT !.pc = "done"]
    /\ UNCHANGED <<disk, single, frames, generator, lookup, kiwi_returned, response, code>>

NextFinder ==
    \/ SearchPattern
    \/ SearchAllXml
    \/ Validate
    \/ ReturnReports

SpecFinder == InitFinder /\ [][NextFinder]_vars

(***************************************************************************)
(* SambaNovaCoder._extract_code_from_response.  A text is the sequence of  *)
(* its lines; the lines here are fences ("[fence]" alone or with a language    *)
(* tag) and lines of other text.                                           *)
(***************************************************************************)
\* a response has up to MaxLines lines
MaxLines == 7

ResponseLines == {"[fence]java", "[fence]", "[fence]python", "a"}

\* re.findall of the opener, a newline, a lazy group of any characters, a
\* newline and three backticks, from a line of the response on:
\* a match opens at the first line that ends with the opener, its group is
\* the lines up to the first line (at least two lines on) that starts with
\* "[fence]", of which it consumes the "[fence]"; the search goes on after that
RECURSIVE FindAll(_, _, _)
FindAll(lines, opener, from) ==
    LET openers == {i \in from..Len(lines) : lines[i] = opener}
        i == CHOOSE n \in openers : \A o \in openers : n <= o
        closers == {n \in (i + 2)..Len(lines) : lines[n] \in {"[fence]java", "[fence]", "[fence]python"}}
        j == CHOOSE n \in closers : \A c \in closers : n <= c
    IN  IF openers = {} THEN <<>>
        ELSE IF closers = {} THEN <<>>
        ELSE <<SubSeq(lines, i + 1, j - 1)>> \o FindAll(lines, opener, j + 1)

\* "\n".join(blocks), as lines
RECURSIVE JoinBlocks(_)
JoinBlocks(blocks) ==
    IF blocks = <<>> THEN <<>> ELSE Head(blocks) \o JoinBlocks(Tail(blocks))

InitExtract ==
    /\ response \in UNION {[1..n -> ResponseLines] : n \in 1..MaxLines}
    /\ code = <<>>
    /\ frames = <<>>
    /\ SingleNotRun
    /\ MainNotRun
    /\ LookupNotRun
    /\ kiwi_returned = <<>>
    /\ disk = <<>>
    /\ finder = [pc |-> "off"]

\* _extract_code_from_response(response)
ExtractCode ==
    /\ code = <<>>
    /\ LET java_blocks == FindAll(response, "[fence]java", 1)
           code_blocks == FindAll(response, "[fence]", 1)
       IN  code' = IF java_blocks # <<>> THEN JoinBlocks(java_blocks)
                   ELSE IF code_blocks # <<>> THEN JoinBlocks(code_blocks)
                   ELSE response
    /\ UNCHANGED <<response, single, frames, generator, lookup, kiwi_returned, disk, finder>>

SpecExtract == InitExtract /\ [][ExtractCode]_vars

(***************************************************************************)
(* What the properties below read off the report, stated on the report     *)
(* itself and not through the operators of the computation.                *)
(***************************************************************************)
\* The calls that have returned.  returned changes only in SortAndReturn, which
\* ends with pc = "idle", so the states with pc = "idle" show every value it
\* takes; the properties of the returned lists are stated on those states.
Finished == 1..Len(returned)

Idle == pc = "idle"

GapsOf(k) == returned[k].gaps

\* the positions of the class elements, and their document order
ClassSlots ==
    UNION {{<<p, c>> : c \in 1..Len(report[p].classes)} : p \in 1..Len(report)}

ClassIn(s) == report[s[1]].classes[s[2]]

DocBefore(s, t) == s[1] < t[1] \/ (s[1] = t[1] /\ s[2] < t[2])

\* dotted is raw with every "/" written "."
IsDotted(dotted, raw) ==
    /\ Len(dotted) = Len(raw)
    /\ \A i \in 1..Len(raw) : dotted[i] = (IF raw[i] = "/" THEN "." ELSE raw[i])

\* the class element a returned gap is about (class names are unique in a report)
SlotOf(g) == CHOOSE s \in ClassSlots : IsDotted(g.class, ClassIn(s).attrib.name)

\* a class that passes the two class-level filters
Analysed(class) ==
    /\ ~Contains(class.attrib.name, TestWord)
    /\ "sourcefilename" \in DOMAIN class.attrib
    /\ class.attrib.sourcefilename # ""

InstructionIndexes(method) ==
    {i \in 1..Len(method.counters) : method.counters[i].type = "INSTRUCTION"}

HasInstruction(method) == InstructionIndexes(method) # {}

FirstInstruction(method) ==
    method.counters[CHOOSE i \in InstructionIndexes(method) :
                        \A j \in InstructionIndexes(method) : i <= j]

MissedOf(method) ==
    IF "missed" \in DOMAIN FirstInstruction(method) THEN FirstInstruction(method).missed ELSE 0

CoveredOf(method) ==
    IF "covered" \in DOMAIN FirstInstruction(method) THEN FirstInstruction(method).covered ELSE 0

Eligible(method) == method.attrib.name # "<init>"

EligibleIn(class) == {i \in 1..Len(class.methods) : Eligible(class.methods[i])}

CoveredEligibleIn(class) ==
    {i \in EligibleIn(class) :
        HasInstruction(class.methods[i]) /\ CoveredOf(class.methods[i]) > 0}

\* covered / (missed + covered) * 100 < min, with 0 for an empty counter
Below(method, min) ==
    /\ HasInstruction(method)
    /\ IF MissedOf(method) + CoveredOf(method) = 0
       THEN 0 < min
       ELSE 100 * CoveredOf(method) < min * (MissedOf(method) + CoveredOf(method))

\* p is the percentage value n
PctIs(p, n) == p.den > 0 /\ p.num = n * p.den

RECURSIVE IsSubsequence(_, _)
IsSubsequence(a, b) ==
    IF a = <<>> THEN TRUE
    ELSE IF b = <<>> THEN FALSE
    ELSE IF Head(a) = Head(b) THEN IsSubsequence(Tail(a), Tail(b))
    ELSE IsSubsequence(a, Tail(b))

(***************************************************************************)
(* C1.  The list a call returns is ordered by class priority,              *)
(* non-increasing: each entry's priority is at least the next entry's.     *)
(***************************************************************************)
C1_OrderedByPriority ==
    Idle =>
    \A k \in Finished :
        \A i \in 1..(Len(GapsOf(k)) - 1) :
            GapsOf(k)[i].priority >= GapsOf(k)[i + 1].priority

\* a returned list in which a class of higher priority stands before a class
\* that precedes it in the report
C1_Witness ==
    \E k \in Finished :
        \E i \in 1..(Len(GapsOf(k)) - 1) :
            /\ GapsOf(k)[i].priority > GapsOf(k)[i + 1].priority
            /\ DocBefore(SlotOf(GapsOf(k)[i + 1]), SlotOf(GapsOf(k)[i]))

(***************************************************************************)
(* C2.  Ties are stable: of two returned classes with equal priority the   *)
(* one met first in the report (package order, then class order within     *)
(* the package) stands first in the returned list.                         *)
(***************************************************************************)
C2_StableTies ==
    Idle =>
    \A k \in Finished :
        \A i, j \in 1..Len(GapsOf(k)) :
            (i < j /\ GapsOf(k)[i].priority = GapsOf(k)[j].priority)
                => DocBefore(SlotOf(GapsOf(k)[i]), SlotOf(GapsOf(k)[j]))

\* two classes of equal priority were returned, and the sort moved a class of
\* higher priority, met after both, in front of them
C2_Witness ==
    \E k \in Finished :
        \E i, j, l \in 1..Len(GapsOf(k)) :
            /\ l < i /\ i < j
            /\ GapsOf(k)[i].priority = GapsOf(k)[j].priority
            /\ GapsOf(k)[l].priority > GapsOf(k)[i].priority
            /\ DocBefore(SlotOf(GapsOf(k)[j]), SlotOf(GapsOf(k)[l]))

ExampleReport == <<Package(ComExample, <<Class(FooName, "Foo.java", <<Bar, Baz>>)>>)>>

DottedFoo == <<"c", "o", "m", ".", "e", "x", "a", "m", "p", "l", "e", ".", "F", "o", "o">>

(***************************************************************************)
(* C3.  The end-to-end example: package com.example, class                 *)
(* com.example.Foo (Foo.java) with bar (missed 8, covered 2) and baz       *)
(* (missed 0, covered 10); with minCoverage 80 the call returns exactly    *)
(* one gap, for Foo, with methods [bar], class coverage 50 and priority 8. *)
(***************************************************************************)
C3_Example ==
    Idle =>
    \A k \in Finished :
        (report = ExampleReport /\ returned[k].min_coverage = 80) =>
            /\ Len(GapsOf(k)) = 1
            /\ GapsOf(k)[1].class = DottedFoo
            /\ GapsOf(k)[1].source_file = "Foo.java"
            /\ Len(GapsOf(k)[1].methods) = 1
            /\ GapsOf(k)[1].methods[1].method = "bar"
            /\ PctIs(GapsOf(k)[1].methods[1].coverage_percentage, 20)
            /\ PctIs(GapsOf(k)[1].class_coverage, 50)
            /\ GapsOf(k)[1].priority = 8

(***************************************************************************)
(* C3, amended.  On the example report with minCoverage 80 the call        *)
(* returns exactly one gap, for Foo, with methods [bar] (20 percent) and   *)
(* priority 8, and its class coverage is 100: bar has covered = 2 > 0, so  *)
(* both methods count as covered (2 of 2).                                 *)
(***************************************************************************)
C3_ExampleAllCovered ==
    Idle =>
    \A k \in Finished :
        (report = ExampleReport /\ returned[k].min_coverage = 80) =>
            /\ Len(GapsOf(k)) = 1
            /\ GapsOf(k)[1].class = DottedFoo
            /\ GapsOf(k)[1].source_file = "Foo.java"
            /\ Len(GapsOf(k)[1].methods) = 1
            /\ GapsOf(k)[1].methods[1].method = "bar"
            /\ PctIs(GapsOf(k)[1].methods[1].coverage_percentage, 20)
            /\ PctIs(GapsOf(k)[1].class_coverage, 100)
            /\ GapsOf(k)[1].priority = 8

\* a call with threshold 80 on the example report has returned a gap
C3_Witness ==
    /\ report = ExampleReport
    /\ \E k \in Finished : returned[k].min_coverage = 80 /\ GapsOf(k) # <<>>

(***************************************************************************)
(* C4.  For every returned class the class-level coverage lies in          *)
(* [0, 100] and is 100 * coveredEligible / totalEligible when              *)
(* totalEligible > 0 and 0 otherwise; totalEligible counts the methods the *)
(* name filter keeps, coveredEligible those of them with covered > 0.      *)
(***************************************************************************)
C4_ClassCoverageIsRatio ==
    Idle =>
    \A k \in Finished :
        \A i \in 1..Len(GapsOf(k)) :
            LET g == GapsOf(k)[i]
                total == Cardinality(EligibleIn(ClassIn(SlotOf(g))))
                covered == Cardinality(CoveredEligibleIn(ClassIn(SlotOf(g))))
            IN  /\ g.class_coverage.den > 0
                /\ 0 <= g.class_coverage.num
                /\ g.class_coverage.num <= 100 * g.class_coverage.den
                /\ IF total > 0
                   THEN g.class_coverage.num * total = 100 * covered * g.class_coverage.den
                   ELSE g.class_coverage.num = 0

\* a returned class with some eligible methods covered and some not
C4_Witness ==
    \E k \in Finished :
        \E i \in 1..Len(GapsOf(k)) :
            /\ 0 < GapsOf(k)[i].class_coverage.num
            /\ GapsOf(k)[i].class_coverage.num < 100 * GapsOf(k)[i].class_coverage.den
            /\ Cardinality(EligibleIn(ClassIn(SlotOf(GapsOf(k)[i])))) = MaxMethods

\* the loop over the classes has just scanned the class before the one it is at
JustScanned ==
    /\ pc = "walk"
    /\ ci > 1
    /\ Analysed(ClassIn(<<pi, ci - 1>>))

(***************************************************************************)
(* C5.  After a class is scanned, the denominator of its ratio counts      *)
(* every method the name filter keeps (also those at or above the          *)
(* threshold and those without an INSTRUCTION counter) and the numerator   *)
(* counts exactly those of them whose INSTRUCTION counter has covered > 0, *)
(* below the threshold or not.                                             *)
(***************************************************************************)
C5_CountsEveryEligibleMethod ==
    JustScanned =>
        /\ total_class_methods = Cardinality(EligibleIn(ClassIn(<<pi, ci - 1>>)))
        /\ covered_class_methods = Cardinality(CoveredEligibleIn(ClassIn(<<pi, ci - 1>>)))

\* a scanned class with a covered method that is not below the threshold and a
\* method without an INSTRUCTION counter, both counted
C5_Witness ==
    /\ JustScanned
    /\ \E i \in CoveredEligibleIn(ClassIn(<<pi, ci - 1>>)) :
           ~Below(ClassIn(<<pi, ci - 1>>).methods[i], min_coverage)
    /\ \E i \in EligibleIn(ClassIn(<<pi, ci - 1>>)) :
           ~HasInstruction(ClassIn(<<pi, ci - 1>>).methods[i])
    /\ total_class_methods > Len(class_methods)
    /\ covered_class_methods > 0

\* the methods of the returned gap's class that a listed entry can stand for
MethodsListedAs(g, e) ==
    {i \in 1..Len(ClassIn(SlotOf(g)).methods) :
        /\ ClassIn(SlotOf(g)).methods[i].attrib.name = e.method
        /\ HasInstruction(ClassIn(SlotOf(g)).methods[i])
        /\ MissedOf(ClassIn(SlotOf(g)).methods[i]) = e.missed_instructions}

(***************************************************************************)
(* C6.  The coverage percentage of a method with INSTRUCTION counter       *)
(* (missed, covered) is covered / (missed + covered) * 100, and it is 0    *)
(* when missed + covered = 0.                                              *)
(***************************************************************************)
C6_PercentageIsRatio ==
    Idle =>
    \A k \in Finished :
        \A i \in 1..Len(GapsOf(k)) :
            \A n \in 1..Len(GapsOf(k)[i].methods) :
                LET g == GapsOf(k)[i]
                    e == g.methods[n]
                IN  /\ e.coverage_percentage.den > 0
                    /\ MethodsListedAs(g, e) # {}
                    /\ \A x \in MethodsListedAs(g, e) :
                        LET missed == MissedOf(ClassIn(SlotOf(g)).methods[x])
                            covered == CoveredOf(ClassIn(SlotOf(g)).methods[x])
                        IN  IF missed + covered = 0
                            THEN e.coverage_percentage.num = 0
                            ELSE e.coverage_percentage.num * (missed + covered)
                                     = 100 * covered * e.coverage_percentage.den

\* a returned gap that lists a method with an empty counter (percentage 0) and
\* a method with a percentage strictly between 0 and 100
C6_Witness ==
    \E k \in Finished :
        \E i \in 1..Len(GapsOf(k)) :
            \E n, o \in 1..Len(GapsOf(k)[i].methods) :
                /\ GapsOf(k)[i].methods[n].method = "nop"
                /\ GapsOf(k)[i].methods[n].coverage_percentage.num = 0
                /\ GapsOf(k)[i].methods[o].coverage_percentage.num > 0

\* the names of the methods of the class that are to be listed, in order
NamesBelow(class, min) ==
    LET Listed(method) == Eligible(method) /\ Below(method, min)
        kept == SelectSeq(class.methods, Listed)
    IN  [i \in 1..Len(kept) |-> kept[i].attrib.name]

NamesListed(g) == [i \in 1..Len(g.methods) |-> g.methods[i].method]

(***************************************************************************)
(* C7.  An eligible method is listed in its class's gap exactly when it    *)
(* has an INSTRUCTION counter and its percentage is strictly below         *)
(* minCoverage: a method at the threshold is not listed, and with          *)
(* minCoverage = 0 nothing is returned.                                    *)
(***************************************************************************)
C7_ListedIffBelowThreshold ==
    Idle =>
    \A k \in Finished :
        /\ returned[k].min_coverage = 0 => GapsOf(k) = <<>>
        /\ \A s \in ClassSlots :
            Analysed(ClassIn(s)) =>
                LET about == {i \in 1..Len(GapsOf(k)) :
                                 IsDotted(GapsOf(k)[i].class, ClassIn(s).attrib.name)}
                    names == NamesBelow(ClassIn(s), returned[k].min_coverage)
                IN  IF names = <<>>
                    THEN about = {}
                    ELSE /\ Cardinality(about) = 1
                         /\ \A i \in about : NamesListed(GapsOf(k)[i]) = names

\* a call with threshold 80 on a class with a method at exactly 80 percent and
\* a method below it: the gap is returned and lists only the latter
C7_Witness ==
    \E k \in Finished :
        /\ returned[k].min_coverage = 80
        /\ \E i \in 1..Len(GapsOf(k)) :
            /\ \E x \in EligibleIn(ClassIn(SlotOf(GapsOf(k)[i]))) :
                   ClassIn(SlotOf(GapsOf(k)[i])).methods[x] = Edge
            /\ \A n \in 1..Len(GapsOf(k)[i].methods) :
                   GapsOf(k)[i].methods[n].method # "edge"

(***************************************************************************)
(* C8.  Monotonicity: of two calls on the same report with thresholds      *)
(* m1 <= m2, every class the first returns is returned by the second, and  *)
(* its listed methods with m1 are among its listed methods with m2; so     *)
(* neither the number of listed methods of a class nor the number of       *)
(* returned classes decreases when the threshold is raised.                *)
(***************************************************************************)
C8_MonotoneInThreshold ==
    Idle =>
    \A k, l \in Finished :
        returned[k].min_coverage <= returned[l].min_coverage =>
            /\ Len(GapsOf(k)) <= Len(GapsOf(l))
            /\ \A i \in 1..Len(GapsOf(k)) :
                \E j \in 1..Len(GapsOf(l)) :
                    /\ GapsOf(l)[j].class = GapsOf(k)[i].class
                    /\ IsSubsequence(GapsOf(k)[i].methods, GapsOf(l)[j].methods)
                    /\ Len(GapsOf(k)[i].methods) <= Len(GapsOf(l)[j].methods)

\* two calls with m1 < m2 where the second lists strictly more methods of a
\* class the first returned
C8_Witness ==
    \E k, l \in Finished :
        /\ 0 < returned[k].min_coverage
        /\ returned[k].min_coverage < returned[l].min_coverage
        /\ \E i \in 1..Len(GapsOf(k)) :
            \E j \in 1..Len(GapsOf(l)) :
                /\ GapsOf(l)[j].class = GapsOf(k)[i].class
                /\ Len(GapsOf(k)[i].methods) < Len(GapsOf(l)[j].methods)

(***************************************************************************)
(* C9.  Two calls on the same report with the same threshold return the    *)
(* same ordered list: the first call leaves nothing behind that changes    *)
(* the second.                                                             *)
(***************************************************************************)
C9_SameCallSameResult ==
    Idle =>
    \A k, l \in Finished :
        returned[k].min_coverage = returned[l].min_coverage => GapsOf(k) = GapsOf(l)

\* a second call with the threshold of the first has returned, and the list
\* has more than one class
C9_Witness ==
    \E k, l \in Finished :
        /\ k < l
        /\ returned[k].min_coverage = returned[l].min_coverage
        /\ Len(GapsOf(l)) > 1

(***************************************************************************)
(* C10.  No class whose dotted name contains "Test" is ever returned,      *)
(* whatever its methods' counters and whatever the threshold.              *)
(***************************************************************************)
C10_NoTestClassReturned ==
    Idle =>
    \A k \in Finished :
        \A i \in 1..Len(GapsOf(k)) : ~Contains(GapsOf(k)[i].class, TestWord)

\* a call has returned on a report with a class named "...Test..." that has a
\* source file and a method below the threshold of the call
C10_Witness ==
    \E k \in Finished :
        \E s \in ClassSlots :
            /\ Contains(ClassIn(s).attrib.name, TestWord)
            /\ "sourcefilename" \in DOMAIN ClassIn(s).attrib
            /\ NamesBelow(ClassIn(s), returned[k].min_coverage) # <<>>

\* a class element that carries no source file name: the attribute is missing
\* or empty
Sourceless(class) ==
    \/ "sourcefilename" \notin DOMAIN class.attrib
    \/ class.attrib.sourcefilename = ""

NotConstructor(method) == method.attrib.name # "<init>"

\* the missed instructions of the methods of the list that are no constructors
\* and are below min
RECURSIVE MissedBelow(_, _)
MissedBelow(methods, min) ==
    IF methods = <<>> THEN 0
    ELSE (IF NotConstructor(Head(methods)) /\ Below(Head(methods), min)
          THEN MissedOf(Head(methods)) ELSE 0)
         + MissedBelow(Tail(methods), min)

(***************************************************************************)
(* C12.  Constructors, the methods named "<init>", are left out before     *)
(* anything is computed: no returned gap lists one, the priority of a gap  *)
(* is the sum of the missed instructions of the listed methods that are no *)
(* constructors, the class ratio counts only methods that are no           *)
(* constructors in its numerator and denominator, and a class whose only   *)
(* methods below the threshold are constructors is not returned.           *)
(***************************************************************************)
C12_ConstructorsExcluded ==
    Idle =>
    \A k \in Finished :
        /\ \A i \in 1..Len(GapsOf(k)) :
              LET g == GapsOf(k)[i]
                  methods == ClassIn(SlotOf(g)).methods
                  eligible_methods == SelectSeq(methods, NotConstructor)
                  CoveredOne(method) == HasInstruction(method) /\ CoveredOf(method) > 0
              IN  /\ \A n \in 1..Len(g.methods) : g.methods[n].method # "<init>"
                  /\ g.priority = MissedBelow(methods, returned[k].min_coverage)
                  /\ Len(eligible_methods) > 0
                  /\ g.class_coverage.num * Len(eligible_methods)
                        = 100 * Len(SelectSeq(eligible_methods, CoveredOne)) * g.class_coverage.den
        /\ \A s \in ClassSlots :
              (\A n \in 1..Len(ClassIn(s).methods) :
                   NotConstructor(ClassIn(s).methods[n])
                       => ~Below(ClassIn(s).methods[n], returned[k].min_coverage))
                  => \A i \in 1..Len(GapsOf(k)) :
                         ~IsDotted(GapsOf(k)[i].class, ClassIn(s).attrib.name)

\* a class with a constructor below the threshold of the call was returned
\* for another method
C12_Witness ==
    \E k \in Finished :
        \E i \in 1..Len(GapsOf(k)) :
            \E n \in 1..Len(ClassIn(SlotOf(GapsOf(k)[i])).methods) :
                /\ ~NotConstructor(ClassIn(SlotOf(GapsOf(k)[i])).methods[n])
                /\ Below(ClassIn(SlotOf(GapsOf(k)[i])).methods[n], returned[k].min_coverage)
                /\ MissedOf(ClassIn(SlotOf(GapsOf(k)[i])).methods[n]) > 0

\* the class has a method, no constructor, below min
HasMethodBelow(class, min) ==
    \E n \in 1..Len(class.methods) :
        class.methods[n].attrib.name # "<init>" /\ Below(class.methods[n], min)

Returns(k, class) ==
    \E i \in 1..Len(GapsOf(k)) : IsDotted(GapsOf(k)[i].class, class.attrib.name)

(***************************************************************************)
(* C13.  A class that passes the class-level filters is in the returned    *)
(* list if and only if at least one of its eligible methods is below the   *)
(* threshold of the call; a class whose eligible methods are all at or     *)
(* above it, or that has none, is absent; every returned gap lists at      *)
(* least one method.                                                       *)
(***************************************************************************)
C13_ReturnedIffSomeMethodBelow ==
    Idle =>
    \A k \in Finished :
        /\ \A s \in ClassSlots :
              Analysed(ClassIn(s)) =>
                  (Returns(k, ClassIn(s))
                      <=> HasMethodBelow(ClassIn(s), returned[k].min_coverage))
        /\ \A i \in 1..Len(GapsOf(k)) : GapsOf(k)[i].methods # <<>>

\* one call with a positive threshold left out a class whose methods with
\* counters are all at or above it, and another call returned that class
C13_Witness ==
    \E k, l \in Finished :
        \E s \in ClassSlots :
            /\ Analysed(ClassIn(s))
            /\ returned[k].min_coverage > 0
            /\ \E n \in EligibleIn(ClassIn(s)) : HasInstruction(ClassIn(s).methods[n])
            /\ ~Returns(k, ClassIn(s))
            /\ Returns(l, ClassIn(s))

\* the missed-instruction counts of the listed entries, added up
RECURSIVE TotalMissed(_)
TotalMissed(listed) ==
    IF listed = <<>> THEN 0
    ELSE Head(listed).missed_instructions + TotalMissed(Tail(listed))

(***************************************************************************)
(* C14.  In every returned gap each listed method's priority is its        *)
(* missed-instruction count, the count its INSTRUCTION counter carries in  *)
(* the report, and the gap's priority is the sum of the missed-instruction *)
(* counts of exactly the listed methods: a method at or above the          *)
(* threshold adds nothing.                                                 *)
(***************************************************************************)
C14_PriorityIsSumOfListedMissed ==
    Idle =>
    \A k \in Finished :
        \A i \in 1..Len(GapsOf(k)) :
            LET g == GapsOf(k)[i]
            IN  /\ \A n \in 1..Len(g.methods) :
                      /\ g.methods[n].priority = g.methods[n].missed_instructions
                      /\ MethodsListedAs(g, g.methods[n]) # {}
                /\ g.priority = TotalMissed(g.methods)

\* a returned gap with one listed method whose class has another method, at
\* or above the threshold, that has missed instructions
C14_Witness ==
    \E k \in Finished :
        \E i \in 1..Len(GapsOf(k)) :
            LET g == GapsOf(k)[i]
                methods == ClassIn(SlotOf(g)).methods
            IN  /\ g.priority > 0
                /\ Len(g.methods) = 1
                /\ \E n \in 1..Len(methods) :
                      /\ Eligible(methods[n])
                      /\ HasInstruction(methods[n])
                      /\ MissedOf(methods[n]) > 0
                      /\ ~Below(methods[n], returned[k].min_coverage)

\* the document is well-formed XML but no JaCoCo report as find_jacoco_reports
\* tells one: its root is not "report", or it holds no package element
Malformed ==
    /\ document.kind = "xml"
    /\ (document.root_tag # "report" \/ report = <<>>)

C16_ParseErrorNeverReturns == document.kind = "garbled" => returned = <<>>

(***************************************************************************)
(* C16, amended.  A call on a document that is not well-formed XML ends    *)
(* inside the function: the error is caught and the call returns the empty *)
(* list, the value a fully covered report yields.                          *)
(***************************************************************************)
C16_ParseErrorYieldsEmptyList ==
    document.kind = "garbled" =>
        /\ pc = "idle"
        /\ \A k \in Finished : GapsOf(k) = <<>>

\* a call on a document that is not well-formed XML has returned
C16_Witness == document.kind = "garbled" /\ returned # <<>>

\* the methods of the class that the accessor patterns match and that are
\* below min
AccessorsBelow(class, min) ==
    {n \in 1..Len(class.methods) :
        class.methods[n].attrib.name \in AccessorNames /\ Below(class.methods[n], min)}

RECURSIVE RunAlone(_)
RunAlone(f) == IF f.pc = "done" THEN f.result ELSE RunAlone(StepFrame(f))

(***************************************************************************)
(* C18.  Two calls of find_coverage_gaps run at once on reports of their   *)
(* own, their steps interleaved in any order: at every point each call is  *)
(* on the way to the list it returns when run alone on its report with its *)
(* threshold, and when it is done it has returned that list.               *)
(***************************************************************************)
C18_InterleavedAsAlone ==
    \A i \in DOMAIN frames :
        frames[i].pc # "new" =>
            RunAlone(frames[i])
                = RunAlone(Entered(Frame(frames[i].report), frames[i].min_coverage))

\* both calls are between their first and their last class, on different
\* reports, and each has collected a gap
C18_Witness ==
    /\ DOMAIN frames = Invocations
    /\ \A i \in Invocations :
          /\ frames[i].pc = "walk"
          /\ frames[i].ci = 2
          /\ Len(frames[i].report[1].classes) = 2
          /\ frames[i].coverage_gaps # <<>>
    /\ frames[1].report # frames[2].report

\* the test files main has written
Written == {path \in DOMAIN test_dir : test_dir[path] = "generated"}

(***************************************************************************)
(* C19.  For every integer value of --max-classes and every gap list, a    *)
(* run of main writes test files for at most max_classes classes; with a   *)
(* maximum below zero that is no file.                                     *)
(***************************************************************************)
C19_AtMostMaxClassesWritten ==
    /\ Cardinality(Written) <= (IF main.max_classes < 0 THEN 0 ELSE main.max_classes)
    /\ main.processed_count <= (IF main.max_classes < 0 THEN 0 ELSE main.max_classes)

\* the classes generate_complete_test_class was called for
Generated == {generate_calls[i] : i \in 1..Len(generate_calls)}

(***************************************************************************)
(* C20.  A class of the gap list whose test file                           *)
(* <test_dir>/<package path>/<SimpleName>Test.java was there when main     *)
(* began is skipped: generate_complete_test_class is never called for it   *)
(* and the file is as it was; check_test_exists and write_test_class       *)
(* compute this one path for the class.                                    *)
(***************************************************************************)
C20_ExistingTestSkipped ==
    \A i \in 1..Len(main.coverage_gaps) :
        LET name == main.coverage_gaps[i]
        IN  /\ TestClassPath(name, TestDirArg) = TestFileOf(name)
            /\ WriteFilePath(PackageName(name), SimpleClassName(name), TestDirArg)
                  = TestFileOf(name)
            /\ TestFileOf(name) \in DOMAIN test_dir_at_start =>
                  /\ name \notin Generated
                  /\ TestFileOf(name) \in DOMAIN test_dir
                  /\ test_dir[TestFileOf(name)] = test_dir_at_start[TestFileOf(name)]

\* main is done: it passed a class in a package whose test file was there,
\* and wrote the test of another class
C20_Witness ==
    /\ main.pc = "done"
    /\ main.processed_count > 0
    /\ \E i \in 1..Len(candidates) :
          /\ candidates[i] # E
          /\ TestFileOf(candidates[i]) \in DOMAIN test_dir_at_start

\* the first max_classes entries of the gap list: none for a maximum below
\* zero, all of them for a maximum beyond its length
FirstMaxClasses ==
    SubSeq(main.coverage_gaps, 1,
           IF main.max_classes < 0 THEN 0
           ELSE IF main.max_classes > Len(main.coverage_gaps) THEN Len(main.coverage_gaps)
           ELSE main.max_classes)

(***************************************************************************)
(* C21.  The candidates of a run are the first max_classes entries of the  *)
(* gap list and the loop passes them one by one in that order: it never    *)
(* goes beyond them, the classes a generation was asked for and the test   *)
(* files written belong to the candidates passed so far, an entry that is  *)
(* skipped is not made up for by a later one, and processed_count is the   *)
(* number of test files written.                                           *)
(***************************************************************************)
C21_FirstMaxClassesAreCandidates ==
    main.pc \in {"loop", "done"} =>
        /\ main.at <= Len(FirstMaxClasses) + 1
        /\ IsSubsequence(generate_calls, SubSeq(FirstMaxClasses, 1, main.at - 1))
        /\ Written \subseteq {TestFileOf(FirstMaxClasses[i]) : i \in 1..(main.at - 1)}
        /\ main.processed_count = Cardinality(Written)
        /\ main.pc = "done" => main.at = Len(FirstMaxClasses) + 1

\* the same for the runs with a maximum of zero or more
C21_HoldsFromZeroOn == main.max_classes >= 0 => C21_FirstMaxClassesAreCandidates

(***************************************************************************)
(* C22.  find_coverage_gaps never propagates an exception and is           *)
(* all-or-nothing: when the file does not parse, or a counter read while   *)
(* walking the report has a missed or covered attribute that is no         *)
(* integer, the result is the empty list even if gaps of earlier classes   *)
(* had been collected, and main then writes no test file.                  *)
(***************************************************************************)
NotInteger(method) ==
    /\ HasInstruction(method)
    /\ {"missed_text", "covered_text"} \cap DOMAIN FirstInstruction(method) # {}

CounterFailure ==
    \E s \in ClassSlots :
        /\ Analysed(ClassIn(s))
        /\ \E n \in EligibleIn(ClassIn(s)) : NotInteger(ClassIn(s).methods[n])

Failure == document.kind = "garbled" \/ CounterFailure

C22_FailureYieldsNothing ==
    /\ pc # "raised"
    /\ Failure =>
          /\ \A k \in Finished : GapsOf(k) = <<>>
          /\ main.pc \in {"call", "start", "done"}
          /\ main.coverage_gaps = <<>>
          /\ generate_calls = <<>>
          /\ test_dir = test_dir_at_start

C22_Witness ==
    /\ CounterFailure
    /\ coverage_gaps # <<>>
    /\ returned # <<>>
    /\ main.pc = "done"


(***************************************************************************)
(* C23.  find_source_file terminates for every class name and every list   *)
(* of source directories; it calls itself only when 'src/main/java' is not *)
(* in src_dirs, and the list of the recursive call has it, so that the     *)
(* stack is never more than two frames deep; it returns None when no file  *)
(* is found at any step, and else a path of a file that is there.          *)
(***************************************************************************)
Has(dirs, dir) == \E n \in 1..Len(dirs) : dirs[n] = dir

\* the directories a whole lookup from dirs goes through
Searched(dirs) ==
    {dirs[n] : n \in 1..Len(dirs)}
        \cup (IF Has(dirs, FallbackDirs[1]) THEN {}
              ELSE {FallbackDirs[n] : n \in 1..Len(FallbackDirs)})

NothingToFind(name, dirs) ==
    \A dir \in Searched(dirs) :
        /\ DirectPath(name, dir) \notin files
        /\ FindOutput(name, dir) = {}

C23_Depth ==
    /\ Len(calls) <= 2
    /\ Len(calls) = 2 =>
          /\ calls[1].pc = "waiting"
          /\ ~Has(calls[1].src_dirs, FallbackDirs[1])
          /\ Has(calls[2].src_dirs, FallbackDirs[1])
          /\ calls[2].src_dirs = calls[1].src_dirs \o FallbackDirs
    /\ \A n \in 1..Len(calls) : calls[n].pc = "waiting" => n < Len(calls)
    /\ calls # <<>> /\ NothingToFind(calls[1].class_name, calls[1].src_dirs) =>
          \A n \in 1..Len(calls) : calls[n].result = <<>>
    /\ calls = <<>> => source_file = <<>> \/ source_file[1] \in files

C23_ReturnsNone ==
    [][calls # <<>> /\ calls' = <<>>
          /\ NothingToFind(calls[1].class_name, calls[1].src_dirs)
       => source_file' = <<>>]_vars

C23_FindSourceFileTerminates ==
    /\ <>(calls = <<>>)
    /\ []C23_Depth
    /\ C23_ReturnsNone

C23_Witness ==
    /\ Len(calls) = 2
    /\ top.pc = "fallback"
    /\ NothingToFind(calls[1].class_name, calls[1].src_dirs)


(***************************************************************************)
(* C24.  Every returned gap lists at least one method and at most as many  *)
(* as the class has eligible (non-constructor) methods, and the covered    *)
(* count is at most the eligible count; a class that is returned was       *)
(* scanned with total_class_methods > 0, so its class coverage never comes *)
(* from the "total = 0" branch.                                            *)
(***************************************************************************)
\* the call that returned last: every call is the last one in the state it
\* returns to
LastCall == {k \in Finished : k = Len(returned)}

C24_CountsBoundListedMethods ==
    /\ Len(class_methods) <= total_class_methods
    /\ covered_class_methods <= total_class_methods
    /\ pc = "walk" /\ class_methods # <<>> =>
          /\ coverage_gaps # <<>>
          /\ Last(coverage_gaps).methods = class_methods
          /\ Last(coverage_gaps).class_coverage
                 = Fraction100(covered_class_methods, total_class_methods)
    /\ \A i \in 1..Len(coverage_gaps) : Len(coverage_gaps[i].methods) >= 1
    /\ Idle =>
          \A k \in LastCall : \A i \in 1..Len(GapsOf(k)) :
              LET class == ClassIn(SlotOf(GapsOf(k)[i]))
              IN  /\ 1 <= Len(GapsOf(k)[i].methods)
                  /\ Len(GapsOf(k)[i].methods) <= Cardinality(EligibleIn(class))
                  /\ Cardinality(CoveredEligibleIn(class)) <= Cardinality(EligibleIn(class))

\* a class with a constructor, a listed and an unlisted method is returned
C24_Witness ==
    /\ Idle
    /\ \E k \in Finished : \E i \in 1..Len(GapsOf(k)) :
          LET class == ClassIn(SlotOf(GapsOf(k)[i]))
          IN  /\ Len(GapsOf(k)[i].methods) < Cardinality(EligibleIn(class))
              /\ Cardinality(CoveredEligibleIn(class)) < Cardinality(EligibleIn(class))

(***************************************************************************)
(* C25.  The class coverage of a class does not depend on the threshold:   *)
(* two calls that both return a class give it the same class_coverage,     *)
(* whatever their thresholds.                                              *)
(***************************************************************************)
C25_ClassCoverageSameAcrossThresholds ==
    Idle =>
    \A j \in Finished : \A k \in LastCall :
        \A i \in 1..Len(GapsOf(j)) : \A n \in 1..Len(GapsOf(k)) :
            GapsOf(j)[i].class = GapsOf(k)[n].class
                => GapsOf(j)[i].class_coverage = GapsOf(k)[n].class_coverage

\* two thresholds return one class with different method lists and
\* priorities
C25_Witness ==
    /\ Idle
    /\ \E j, k \in Finished :
          /\ returned[j].min_coverage # returned[k].min_coverage
          /\ \E i \in 1..Len(GapsOf(j)) : \E n \in 1..Len(GapsOf(k)) :
                /\ GapsOf(j)[i].class = GapsOf(k)[n].class
                /\ GapsOf(j)[i].methods # GapsOf(k)[n].methods
                /\ GapsOf(j)[i].priority # GapsOf(k)[n].priority
                /\ GapsOf(j)[i].class_coverage.num > 0

(***************************************************************************)
(* C26.  An eligible method of an analysed class whose INSTRUCTION counter *)
(* has missed = 0 and covered = 0 is listed by every call with a threshold *)
(* above 0, with percentage 0 and priority 0, and is not among the covered *)
(* methods of the class ratio; a class of such methods only is returned    *)
(* with priority 0 and class coverage 0.                                   *)
(***************************************************************************)
EmptyCounter(method) ==
    /\ Eligible(method)
    /\ HasInstruction(method)
    /\ MissedOf(method) = 0
    /\ CoveredOf(method) = 0

C26_EmptyCounterListedWithPriorityZero ==
    Idle =>
    \A k \in LastCall : \A s \in ClassSlots :
        LET class == ClassIn(s)
            empties == {n \in 1..Len(class.methods) : EmptyCounter(class.methods[n])}
        IN  (returned[k].min_coverage > 0 /\ Analysed(class) /\ empties # {}) =>
                \E i \in 1..Len(GapsOf(k)) :
                    LET g == GapsOf(k)[i]
                    IN  /\ IsDotted(g.class, class.attrib.name)
                        /\ \A n \in empties :
                              \E e \in 1..Len(g.methods) :
                                  /\ g.methods[e].method = class.methods[n].attrib.name
                                  /\ PctIs(g.methods[e].coverage_percentage, 0)
                                  /\ g.methods[e].priority = 0
                        /\ empties \cap CoveredEligibleIn(class) = {}
                        /\ g.class_coverage.num * Cardinality(EligibleIn(class))
                               = 100 * Cardinality(CoveredEligibleIn(class)) * g.class_coverage.den
                        /\ empties = EligibleIn(class) =>
                               g.priority = 0 /\ PctIs(g.class_coverage, 0)

\* a gap of priority 0 is returned
C26_Witness ==
    /\ Idle
    /\ \E k \in Finished : \E i \in 1..Len(GapsOf(k)) :
          /\ GapsOf(k)[i].priority = 0
          /\ returned[k].min_coverage > 0
          /\ \A e \in 1..Len(GapsOf(k)[i].methods) : GapsOf(k)[i].methods[e].method = "nop"


(***************************************************************************)
(* What test_generator.find_coverage_gaps returned, read off the report.   *)
(***************************************************************************)
KiwiFinished == 1..Len(kiwi_returned)

KiwiGapsOf(k) == kiwi_returned[k].gaps

\* the dotted name of the package element a class slot is in
PackageOf(s) == ReplaceSlash(report[s[1]].attrib.name)

\* a method name the loop over the methods passes over
Utility(name) ==
    \/ name \in {"<init>", "toString", "hashCode", "equals"}
    \/ /\ Len(Chars(name)) >= 7
       /\ \A i \in 1..7 : Chars(name)[i] = <<"l", "a", "m", "b", "d", "a", "$">>[i]

\* a package name outside org.kiwiproject, or one of the generated packages
Foreign(name) ==
    LET kiwi == <<"o", "r", "g", ".", "k", "i", "w", "i", "p", "r", "o", "j", "e", "c", "t">>
        generated == <<"w", "s", ".", "e", "x", "a", "m", "p", "l", "e", ".", "w", "s", ".", "x", "m", "l", ".", "j", "a", "k", "a", "r", "t", "a">>
        Within(word) == \E i \in 0..(Len(name) - Len(word)) :
                           \A n \in 1..Len(word) : Lower(<<name[i + n]>>) = <<word[n]>>
    IN  \/ Len(name) < Len(kiwi)
        \/ \E i \in 1..Len(kiwi) : name[i] # kiwi[i]
        \/ Len(name) >= Len(generated) /\ \A i \in 1..Len(generated) : name[i] = generated[i]
        \/ Within(<<"w", "s", "d", "l", "f", "i", "r", "s", "t", "s", "e", "r", "v", "i", "c", "e">>)
        \/ Within(<<"m", "t", "o", "m", "s", "e", "r", "v", "i", "c", "e">>)

KiwiEligibleIn(class) ==
    {i \in 1..Len(class.methods) : ~Utility(class.methods[i].attrib.name)}

(***************************************************************************)
(* C27.  In test_generator.find_coverage_gaps a returned class is in a     *)
(* package whose dotted name starts with 'org.kiwiproject', does not start *)
(* with 'ws.example.ws.xml.jakarta' and has neither 'wsdlfirstservice' nor *)
(* 'mtomservice' in it in any letter case; methods named <init>, lambda$*, *)
(* toString, hashCode or equals are neither listed nor counted in the      *)
(* class ratio.                                                            *)
(***************************************************************************)
C27_OnlyKiwiPackagesNoUtilityMethods ==
    \A k \in KiwiFinished :
        /\ \A i \in 1..Len(KiwiGapsOf(k)) :
              LET g == KiwiGapsOf(k)[i]
                  class == ClassIn(SlotOf(g))
                  counted == KiwiEligibleIn(class)
                  covered == {n \in counted : HasInstruction(class.methods[n])
                                                  /\ CoveredOf(class.methods[n]) > 0}
              IN  /\ ~Foreign(PackageOf(SlotOf(g)))
                  /\ g.package = PackageOf(SlotOf(g))
                  /\ \A e \in 1..Len(g.methods) : ~Utility(g.methods[e].method)
                  /\ counted # {}
                  /\ g.class_coverage.num * Cardinality(counted)
                         = 100 * Cardinality(covered) * g.class_coverage.den
        /\ \A s \in ClassSlots :
              Foreign(PackageOf(s)) =>
                  \A i \in 1..Len(KiwiGapsOf(k)) :
                      ~IsDotted(KiwiGapsOf(k)[i].class, ClassIn(s).attrib.name)

\* a class of org.kiwiproject is returned without its lambda, hashCode and
\* equals methods, which are below the threshold, and the uncovered class
\* of another package of the report is not
C27_Witness ==
    \E k \in KiwiFinished : \E i \in 1..Len(KiwiGapsOf(k)) :
        LET class == ClassIn(SlotOf(KiwiGapsOf(k)[i]))
        IN  /\ \E n \in 1..Len(class.methods) :
                  /\ class.methods[n].attrib.name = "lambda$0"
                  /\ Below(class.methods[n], kiwi_returned[k].min_coverage)
            /\ \E n \in 1..Len(class.methods) : class.methods[n].attrib.name = "equals"
            /\ \E s \in ClassSlots :
                  /\ Foreign(PackageOf(s))
                  /\ \E n \in 1..Len(ClassIn(s).methods) :
                        /\ ~Utility(ClassIn(s).methods[n].attrib.name)
                        /\ Below(ClassIn(s).methods[n], kiwi_returned[k].min_coverage)

(***************************************************************************)
(* C28.  jacoco_test_generator.find_coverage_gaps lists the qualifying     *)
(* methods of a class in report encounter order; test_generator's lists    *)
(* them by missed instructions non-increasing, methods of equal count in   *)
(* encounter order; each lists exactly its below-threshold eligible        *)
(* methods, and both list the same methods for a class that has no method  *)
(* with a name only test_generator skips.                                  *)
(***************************************************************************)
\* the positions in the class of the methods test_generator is to list
KiwiBelow(class, min) ==
    {n \in KiwiEligibleIn(class) : Below(class.methods[n], min)}

\* where in the class the method of a listed entry is (method names are
\* unique in a class here)
PlaceOf(class, entry) ==
    CHOOSE n \in 1..Len(class.methods) : class.methods[n].attrib.name = entry.method

ValidReport(path) ==
    /\ path \in DOMAIN disk
    /\ disk[path].parses
    /\ disk[path].root_tag = "report"
    /\ disk[path].packages >= 1

(***************************************************************************)
(* C29.  As stated: every path find_jacoco_reports returns is of a file    *)
(* that parses as XML with root tag 'report' and at least one package      *)
(* below it, and no path is in the returned list twice, also when it       *)
(* matches several of the search patterns.                                 *)
(***************************************************************************)
C29_ValidReportsListedOnce ==
    finder.pc = "done" =>
        /\ \A i \in 1..Len(finder.valid_reports) : ValidReport(finder.valid_reports[i])
        /\ \A i, j \in 1..Len(finder.valid_reports) :
              finder.valid_reports[i] = finder.valid_reports[j] => i = j

\* what does hold: the returned paths are the found paths that are valid
\* reports, in the order and as many times as they were found
C29_ValidOfFound ==
    finder.pc = "done" =>
        finder.valid_reports = SelectSeq(finder.found_reports, ValidReport)

(***************************************************************************)
(* What a response holds, read as fenced text: a block opens at a fence    *)
(* line, with or without a tag, and closes at the next line that is a      *)
(* fence without tag; its body is the lines between.                       *)
(***************************************************************************)
RECURSIVE Blocks(_, _)
Blocks(lines, from) ==
    LET fences == {i \in from..Len(lines) :
                      lines[i] \in {"[fence]java", "[fence]", "[fence]python"}}
        i == CHOOSE n \in fences : \A o \in fences : n <= o
        ends == {n \in (i + 1)..Len(lines) : lines[n] = "[fence]"}
        j == CHOOSE n \in ends : \A c \in ends : n <= c
    IN  IF fences = {} \/ ends = {} THEN <<>>
        ELSE <<[tag |-> lines[i], body |-> SubSeq(lines, i + 1, j - 1)]>>
                 \o Blocks(lines, j + 1)

\* the bodies of the blocks with a tag, joined by newlines (a body without
\* lines is the empty text, which is one empty line)
RECURSIVE Joined(_, _)
Joined(blocks, tag) ==
    IF blocks = <<>> THEN <<>>
    ELSE (IF Head(blocks).tag # tag THEN <<>>
          ELSE IF Head(blocks).body = <<>> THEN <<"">>
          ELSE Head(blocks).body)
         \o Joined(Tail(blocks), tag)

HasBlock(lines, tag) ==
    \E n \in 1..Len(Blocks(lines, 1)) : Blocks(lines, 1)[n].tag = tag

(***************************************************************************)
(* C30.  As stated: when the response has a java block the result is the   *)
(* java blocks joined by newlines in order of appearance; else, when it    *)
(* has a block without tag, those blocks joined; else the response as it   *)
(* is.                                                                     *)
(***************************************************************************)
C30_StrictPrecedence ==
    code # <<>> =>
        code = IF HasBlock(response, "[fence]java")
               THEN Joined(Blocks(response, 1), "[fence]java")
               ELSE IF HasBlock(response, "[fence]")
               THEN Joined(Blocks(response, 1), "[fence]")
               ELSE response

\* what does hold: the precedence, on a response whose fences are the
\* opening java fences and the closing plain fences of its blocks, none of
\* them without lines
C30_HoldsForJavaBlocks ==
    (/\ code # <<>>
     /\ HasBlock(response, "[fence]java")
     /\ Cardinality({n \in 1..Len(response) :
                        response[n] \in {"[fence]java", "[fence]", "[fence]python"}})
            = 2 * Len(Blocks(response, 1))
     /\ \A n \in 1..Len(Blocks(response, 1)) :
           /\ Blocks(response, 1)[n].tag = "[fence]java"
           /\ Blocks(response, 1)[n].body # <<>>)
        => code = Joined(Blocks(response, 1), "[fence]java")


==============================================================================
